---- MODULE Spec2Model ----
(***************************************************************************)
(* A state-machine model of the Direct3D 11 backend of the atlas renderer  *)
(* (src/renderer/atlas/BackendD3D11.cpp).  One Render call is a process    *)
(* whose position is pc; every step of it is one action.  Floating point   *)
(* coordinates are modelled by integers (pixelPerDIP = 1), colours and     *)
(* indices by naturals below 2^32.                                         *)
(***************************************************************************)
EXTENDS Integers, Sequences, FiniteSets, TLC

VARIABLES
    pc,                   \* position of the render thread inside Render
    p,                    \* the RenderingPayload of the Render call in progress
    _instances,           \* Buffer<QuadInstance>: CPU staging array
    _indices,             \* Buffer<u32>: CPU staging array
    _instancesSize,       \* logical number of queued instances
    _indicesSize,         \* logical number of queued indices
    _instanceBuffer,      \* GPU structured buffer (contents after the last upload)
    _indexBuffer,         \* GPU index buffer (contents after the last upload)
    _instanceBufferSize,  \* recorded capacity of _instanceBuffer
    _indexBufferSize,     \* recorded capacity of _indexBuffer
    _vertexInstanceData,  \* the vector the cursor inversion reads and extends
    _glyphAtlas,          \* whether the atlas texture exists
    _rectPacker,          \* stbrp_context: width, height and the packing state
    _glyphCache,          \* (fontFace, glyphIndex) -> GlyphCacheEntry
    beganDrawing,         \* the beganDrawing flag
    d2dOpen,              \* whether the D2D render target is between BeginDraw and EndDraw
    _generation,          \* generation of the settings at the last refresh
    _fontGeneration,      \* generation of the font settings at the last refresh
    _miscGeneration,      \* generation of the misc settings at the last refresh
    _targetSize,          \* the target size the refresh compares with
    _cellCount,           \* cell count at the last refresh
    _renderTargetView,    \* whether the view of the back buffer exists
    _swapChainManager,    \* the swap chain manager: the target size of its swap chain
    _textRenderingParams, \* the font generation the render parameters were read for
    _backgroundBitmapSamplerState,     \* whether it exists
    _customPixelShader,   \* "none", "user" or "retro"
    _customVertexShader,  \* whether it exists
    _customShaderConstantBuffer,       \* whether it exists
    _customShaderSamplerState,         \* whether it exists
    _customOffscreenTexture,           \* its size, <<0, 0>> if there is none
    _customOffscreenTextureView,       \* whether it exists
    _customOffscreenTextureTargetView, \* whether it exists
    _backgroundBitmap,    \* its size in cells, <<0, 0>> if there is none
    _backgroundBitmapView,             \* whether it exists
    _constantBuffer,      \* the data last written to the constant buffer
    _requiresContinuousRedraw,         \* what RequiresContinuousRedraw() returns
    warnings,             \* history: the codes the warning callback was called with
    _sourceCodeInvalidationTime,  \* debug builds: when the shaders are to be compiled again
    now,                  \* the steady clock, in units of InvalidationDelay
    invalidationTime,     \* the local of _debugUpdateShaders: what it loaded
    watcher,              \* the callback of the folder watcher: its position and locals
    _vertexShader,        \* the vertex shader: the version of the source it was made of
    _textPixelShader,     \* the text pixel shader: its file and the version of the source
    watch,                \* history of the hot reload
    _host,                \* WindowThread: the AppHost, NoHost if null
    _warmWindow,          \* WindowThread: the window kept for reuse, NoWindow if null
    _peasant,             \* WindowThread: the peasant of the window request, "" before any
    _UpdateSettingsRequestedToken,     \* WindowThread: token of the settings handler
    _dispatcher,          \* WindowThread: whether the dispatcher queue of the thread is held
    messages,             \* the message queue of the window thread
    thread,               \* the window thread: its position and the exit code of the pump
    events,               \* history: what the window thread did in its last call or for its last message
    textPos,              \* text pass: <<row y, mapping, glyph i>>
    cumulativeAdvance,    \* text pass: the running advance of the current row
    scan,                 \* cursor inversion loop: [i, l, oob]
    calls,                \* history: graphics calls of the Render call in progress
    trace,                \* history: the stages the Render call in progress went through
    frameQuads,           \* history: the quads passed to _appendRect in this Render call
    passes,               \* history: the passes that queued frameQuads, as runs [pass, n]
    flushMark,            \* history: Len(frameQuads) at the last flush of this Render call
    packFailures,         \* history: glyphs that failed to pack in this Render call
    frames,               \* history: number of Render calls started
    previous              \* history: the settings of the Render call before

vars == <<pc, p, _instances, _indices, _instancesSize, _indicesSize,
          _instanceBuffer, _indexBuffer, _instanceBufferSize, _indexBufferSize,
          _vertexInstanceData, _glyphAtlas, _rectPacker, _glyphCache,
          beganDrawing, d2dOpen, _generation, _fontGeneration, _miscGeneration,
          _targetSize, _cellCount, _renderTargetView, _swapChainManager,
          _textRenderingParams, _backgroundBitmapSamplerState, _customPixelShader,
          _customVertexShader, _customShaderConstantBuffer, _customShaderSamplerState,
          _customOffscreenTexture, _customOffscreenTextureView,
          _customOffscreenTextureTargetView, _backgroundBitmap, _backgroundBitmapView,
          _constantBuffer, _requiresContinuousRedraw, warnings,
          _sourceCodeInvalidationTime, now, invalidationTime, watcher, _vertexShader,
          _textPixelShader, watch,
          _host, _warmWindow, _peasant, _UpdateSettingsRequestedToken, _dispatcher,
          messages, thread, events,
          textPos, cumulativeAdvance, scan,
          calls, trace, frameQuads, passes, flushMark, packFailures, frames,
          previous>>

----------------------------------------------------------------------------
(* Bounds of the model.                                                     *)

\* Render calls explored per behaviour.
MaxFrames == 2
\* Out-of-bounds vector reads that return garbage before the process faults.
MaxOobReads == 1
\* Pack failures followed within one Render call.
MaxPackFailures == 2
\* Columns and rows of the grids of the cursor index.
MaxGrid == 3

\* Messages posted to the window thread per behaviour.
MaxMessages == 3
\* Calls of CreateHost, Refrigerate and Microwave per behaviour.
MaxCalls == 3

\* Grid line ranges of the long frame's row.
LongRow == 1024

(* Program constants.                                                       *)

\* std::max<size_t>(1024, ...) in _bumpInstancesSize
MinInstances == 1024
\* uint32_t{ 256 * 256 } in _resetAtlasAndBeginDraw
MinAtlasArea == 65536
\* the mask of invertColor, 0xc0c0c0
InvertMask == 12632256
\* the largest u16, the result of a saturated cast
U16Max == 65535

----------------------------------------------------------------------------
(* Arithmetic helpers.                                                      *)

Max(a, b) == IF a >= b THEN a ELSE b

Min(a, b) == IF a <= b THEN a ELSE b

RECURSIVE BitXor(_, _)
\* a ^ b on naturals
BitXor(a, b) ==
    IF a = 0 THEN b
    ELSE IF b = 0 THEN a
    ELSE (((a % 2) + (b % 2)) % 2) + 2 * BitXor(a \div 2, b \div 2)

RECURSIVE BitScanReverse(_)
\* index of the highest set bit of n > 0
BitScanReverse(n) == IF n <= 1 THEN 0 ELSE 1 + BitScanReverse(n \div 2)

RECURSIVE Pow2(_)
Pow2(n) == IF n = 0 THEN 1 ELSE 2 * Pow2(n - 1)

----------------------------------------------------------------------------
(* Colours and quads.                                                       *)

\* A u32 colour, as its top byte and its low 24 bits.
Color(a, rgb) == [a |-> a, rgb |-> rgb]

\* INVALID_COLOR, 0xffffffff: the cursor colour that asks for inversion
INVALID_COLOR == Color(255, 16777215)

\* QuadInstance{ position, texcoord, color, shadingType }
QuadInstance(position, texcoord, color, shadingType) ==
    [position |-> position, texcoord |-> texcoord, color |-> color,
     shadingType |-> shadingType]

----------------------------------------------------------------------------
(* Buffer<T>: a heap array of `size` elements whose storage is not          *)
(* initialised.  `data` holds the elements up to the highest position       *)
(* written since the allocation; an element never written is indeterminate: *)
(* it is not in `data` or it is the mark u of its type there, `holes`       *)
(* counting the marks.  What a read of such an element yields is chosen     *)
(* when it is read.                                                         *)

UninitQuad == QuadInstance(<<0, 0, 0, 0>>, <<0, 0, 0, 0>>, Color(0, 0), "Uninit")

UninitIndex == -1

\* What reading indeterminate storage may yield, for the two arrays: zero
\* pages, or what a freed block left there.
FreshPairs ==
    {<<QuadInstance(<<0, 0, 0, 0>>, <<0, 0, 0, 0>>, Color(0, 0), "Zero"), 0>>,
     <<QuadInstance(<<0, 0, 0, 0>>, <<1, 1, 1, 1>>, Color(85, 5592405), "Garbage"),
       1431655765>>}

\* Buffer<T>{ n }
BufferNew(n) == [size |-> n, data |-> <<>>, holes |-> 0]

\* buf[k], k counted from 0
BufAt(buf, k, u) == IF k < Len(buf.data) THEN buf.data[k + 1] ELSE u

RECURSIVE Overwrite(_, _, _)
\* data with vs written from position k (from 0) on, all inside data
Overwrite(data, k, vs) ==
    IF vs = <<>> THEN data
    ELSE Overwrite([data EXCEPT ![k + 1] = Head(vs)], k + 1, Tail(vs))

\* the marks among data[k+1 .. k+n]
Marks(data, k, n, u) == Cardinality({j \in (k + 1)..(k + n) : data[j] = u})

\* buf[k] = vs[1]; buf[k + 1] = vs[2]; ...
BufWrite(buf, k, vs, u) ==
    IF k = Len(buf.data)
    THEN [buf EXCEPT !.data = buf.data \o vs]
    ELSE IF k + Len(vs) <= Len(buf.data)
    THEN [buf EXCEPT !.data = Overwrite(buf.data, k, vs),
                     !.holes = buf.holes - Marks(buf.data, k, Len(vs), u)]
    ELSE [buf EXCEPT
            !.data = [j \in 1..(k + Len(vs)) |->
                        IF j > k THEN vs[j - k]
                        ELSE IF j <= Len(buf.data) THEN buf.data[j]
                        ELSE u],
            !.holes = IF k > Len(buf.data)
                      THEN buf.holes + (k - Len(buf.data))
                      ELSE buf.holes - Marks(buf.data, k, Len(buf.data) - k, u)]

\* Whether the first n elements were all written since the allocation.
Written(buf, n) == buf.holes = 0 /\ n <= Len(buf.data)

\* What memcpy(dst, buf.data(), n * sizeof(T)) copies, g being what the
\* indeterminate elements yield.
BufPrefix(buf, n, u, g) ==
    IF Written(buf, n) THEN SubSeq(buf.data, 1, n)
    ELSE [j \in 1..n |-> IF BufAt(buf, j - 1, u) = u THEN g ELSE BufAt(buf, j - 1, u)]

----------------------------------------------------------------------------
(* The quad batcher.  A batch b is the CPU side of the queue:               *)
(* [instances, indices, instancesSize, indicesSize].                        *)

\* _bumpInstancesSize
BumpInstancesSize(b) ==
    LET n == Max(MinInstances, b.instances.size * 2)
    IN  [b EXCEPT !.instances = BufferNew(n), !.indices = BufferNew(n * 6)]

\* An _appendRect that writes the second triangle's indices in another order.
AppendRectSkewed(b, q) ==
    LET off == b.instancesSize * 4
        g == IF b.instancesSize >= b.instances.size
             THEN BumpInstancesSize(b)
             ELSE b
    IN  [instances |-> BufWrite(g.instances, g.instancesSize, <<q>>, UninitQuad),
         indices |-> BufWrite(g.indices, g.indicesSize,
                        <<off + 0, off + 1, off + 2, off + 2, off + 1, off + 3>>,
                        UninitIndex),
         instancesSize |-> g.instancesSize + 1,
         indicesSize |-> g.indicesSize + 6]

\* _appendRect(position, texcoord, color, shadingType), q the QuadInstance
AppendRect(b, q) ==
    LET off == b.instancesSize * 4
        g == IF b.instancesSize >= b.instances.size
             THEN BumpInstancesSize(b)
             ELSE b
    IN  [instances |-> BufWrite(g.instances, g.instancesSize, <<q>>, UninitQuad),
         indices |-> BufWrite(g.indices, g.indicesSize,
                        <<off + 0, off + 1, off + 2, off + 3, off + 2, off + 1>>,
                        UninitIndex),
         instancesSize |-> g.instancesSize + 1,
         indicesSize |-> g.indicesSize + 6]

RECURSIVE AppendRects(_, _)
\* consecutive _appendRect calls, one per element of qs
AppendRects(b, qs) ==
    IF qs = <<>> THEN b
    ELSE IF Len(qs) = 1 THEN AppendRect(b, qs[1])
    ELSE LET h == Len(qs) \div 2
             c == AppendRects(b, SubSeq(qs, 1, h))
         IN  \* the first h calls have returned (c is evaluated) before the rest
             IF c.instancesSize > 0
             THEN AppendRects(c, SubSeq(qs, h + 1, Len(qs)))
             ELSE c

\* What the indeterminate elements a flush of b uploads may yield.
Fresh(b) ==
    IF Written(b.instances, b.instancesSize) /\ Written(b.indices, b.indicesSize)
    THEN {CHOOSE f \in FreshPairs : TRUE}
    ELSE FreshPairs

(* A GPU buffer: `id` counts the CreateBuffer calls that made it (0: none), *)
(* `size` is the element count it was created with, `data` what the last    *)
(* write-discard map left in it.                                            *)
NoBuffer == [id |-> 0, size |-> 0, data |-> <<>>]

\* A growth of the GPU buffers without the half of the size added.
FlushBufferSizeExact(estimatedMinimum, size) == Max(estimatedMinimum, size)

\* minSize = size + size / 2; newSize = std::max(estimatedMinimum, minSize)
FlushBufferSize(estimatedMinimum, size) == Max(estimatedMinimum, size + (size \div 2))

\* A draw call of as many indices as there are instances.
DrawIndexedInstances(b) == [op |-> "DrawIndexed", what |-> "", n |-> b.instancesSize]

\* _deviceContext->DrawIndexed(_indicesSize, 0, 0)
DrawIndexed(b) == [op |-> "DrawIndexed", what |-> "", n |-> b.indicesSize]

\* _flushRects past its early return: grow the GPU buffers whose recorded
\* capacity the counts exceed, upload the first instancesSize instances and
\* indicesSize indices (gq and gi: what the indeterminate ones yield), draw,
\* and reset the counts.  [b, gpu, calls]
FlushRectsBody(b, gpu, cellCount, gq, gi) ==
    LET estimatedMinimum == cellCount[1] * cellCount[2]
        growInst == b.instancesSize > gpu.instanceBufferSize
        newInst == FlushBufferSize(estimatedMinimum, b.instancesSize)
        growIdx == b.indicesSize > gpu.indexBufferSize
        newIdx == FlushBufferSize(estimatedMinimum, b.indicesSize)
        instBuf == IF growInst
                   THEN [id |-> gpu.instanceBuffer.id + 1, size |-> newInst, data |-> <<>>]
                   ELSE gpu.instanceBuffer
        idxBuf == IF growIdx
                  THEN [id |-> gpu.indexBuffer.id + 1, size |-> newIdx, data |-> <<>>]
                  ELSE gpu.indexBuffer
    IN  [b |-> [b EXCEPT !.instancesSize = 0, !.indicesSize = 0],
         gpu |-> [instanceBuffer |->
                      [instBuf EXCEPT !.data =
                          BufPrefix(b.instances, b.instancesSize, UninitQuad, gq)],
                  indexBuffer |->
                      [idxBuf EXCEPT !.data =
                          BufPrefix(b.indices, b.indicesSize, UninitIndex, gi)],
                  instanceBufferSize |->
                      IF growInst THEN newInst ELSE gpu.instanceBufferSize,
                  indexBufferSize |->
                      IF growIdx THEN newIdx ELSE gpu.indexBufferSize],
         calls |->
             (IF growInst THEN <<[op |-> "CreateBuffer", what |-> "instance", n |-> newInst]>>
              ELSE <<>>)
             \o (IF growIdx THEN <<[op |-> "CreateBuffer", what |-> "index", n |-> newIdx]>>
                 ELSE <<>>)
             \o <<[op |-> "Map", what |-> "instance", n |-> b.instancesSize],
                  [op |-> "Map", what |-> "index", n |-> b.indicesSize],
                  DrawIndexed(b)>>]

\* A _flushRects without the early return.
FlushRectsAlways(b, gpu, cellCount, gq, gi) == FlushRectsBody(b, gpu, cellCount, gq, gi)

\* _flushRects(p)
FlushRects(b, gpu, cellCount, gq, gi) ==
    IF b.instancesSize = 0
    THEN [b |-> b, gpu |-> gpu, calls |-> <<>>]
    ELSE FlushRectsBody(b, gpu, cellCount, gq, gi)

----------------------------------------------------------------------------
(* The atlas, the rect packer, the glyph cache and the glyph rasterizer.    *)

\* The ink box getGlyphRunBlackBox reports for a glyph, and whether
\* _drawGlyphRun finds it to be a colour glyph.  Glyph 0 has no ink, 3 is
\* wider than the smallest atlas, 4 and 5 each fill most of that atlas.
GlyphRunBlackBox(fontFace, glyphIndex) ==
    CASE glyphIndex = 0 -> [left |-> 0, top |-> 0, right |-> 0, bottom |-> 0]
      [] glyphIndex = 1 -> [left |-> 0, top |-> -8, right |-> 6, bottom |-> 0]
      [] glyphIndex = 2 -> [left |-> 1, top |-> -10, right |-> 13, bottom |-> 2]
      [] glyphIndex = 3 -> [left |-> 0, top |-> -8, right |-> 300, bottom |-> 0]
      [] glyphIndex = 4 -> [left |-> 0, top |-> -150, right |-> 150, bottom |-> 0]
      [] OTHER -> [left |-> 0, top |-> -150, right |-> 160, bottom |-> 0]

IsColorGlyph(fontFace, glyphIndex) == glyphIndex = 2

(* A u32 as the record [hi, lo] of its two 16 bit halves, for the products   *)
(* of two u16 that a 32 bit signed integer cannot hold.                     *)

\* static_cast<u32>(x) * static_cast<u32>(y) for x and y below 2^16
Mul16(x, y) ==
    LET mid == (x \div 256) * (y % 256) + (x % 256) * (y \div 256)
        low == (mid % 256) * 256 + (x % 256) * (y % 256)
    IN  [hi |-> (x \div 256) * (y \div 256) + mid \div 256 + low \div 65536,
         lo |-> low % 65536]

\* a < b
WideLess(a, b) == a.hi < b.hi \/ (a.hi = b.hi /\ a.lo < b.lo)

\* std::max(a, b)
WideMax(a, b) == IF WideLess(a, b) THEN b ELSE a

\* a - 1 for a > 0
WideDec(a) == IF a.lo > 0 THEN [a EXCEPT !.lo = a.lo - 1]
              ELSE [hi |-> a.hi - 1, lo |-> 65535]

\* _BitScanReverse(&index, a) for a > 0
WideBitScanReverse(a) ==
    IF a.hi > 0 THEN 16 + BitScanReverse(a.hi) ELSE BitScanReverse(a.lo)

\* A size computation that gives the atlas the same width and height.
AtlasSizeSquare(targetSize) ==
    LET area == WideMax([hi |-> MinAtlasArea \div 65536, lo |-> MinAtlasArea % 65536],
                        Mul16(targetSize[1], targetSize[2]))
        index == WideBitScanReverse(WideDec(area))
    IN  <<Min(U16Max, Pow2((index + 2) \div 2)),
          Min(U16Max, Pow2((index + 2) \div 2))>>

\* u and v of _resetAtlasAndBeginDraw
AtlasSize(targetSize) ==
    LET area == WideMax([hi |-> MinAtlasArea \div 65536, lo |-> MinAtlasArea % 65536],
                        Mul16(targetSize[1], targetSize[2]))
        index == WideBitScanReverse(WideDec(area))
    IN  <<Min(U16Max, Pow2((index + 2) \div 2)),
          Min(U16Max, Pow2((index + 1) \div 2))>>

\* stbrp_init_target(&_rectPacker, u, v, ...): an empty packer.  The packer
\* places rectangles left to right on shelves; the shelf in use starts at
\* y, is rowH high and is filled up to x.
RectPackerInit(u, v) == [width |-> u, height |-> v, x |-> 0, y |-> 0, rowH |-> 0]

\* stbrp_pack_rects(&_rectPacker, &rect, 1)
PackRect(rp, w, h) ==
    IF w > rp.width \/ h > rp.height
    THEN [ok |-> FALSE, x |-> 0, y |-> 0, rp |-> rp]
    ELSE IF rp.x + w <= rp.width /\ rp.y + Max(rp.rowH, h) <= rp.height
    THEN [ok |-> TRUE, x |-> rp.x, y |-> rp.y,
          rp |-> [rp EXCEPT !.x = rp.x + w, !.rowH = Max(rp.rowH, h)]]
    ELSE IF rp.y + rp.rowH + h <= rp.height
    THEN [ok |-> TRUE, x |-> 0, y |-> rp.y + rp.rowH,
          rp |-> [rp EXCEPT !.x = w, !.y = rp.y + rp.rowH, !.rowH = h]]
    ELSE [ok |-> FALSE, x |-> 0, y |-> 0, rp |-> rp]

\* The entry _glyphCache.FindOrInsert creates on a miss.
NewGlyphCacheEntry == [shadingType |-> "None", offset |-> <<0, 0>>,
                       texcoord |-> <<0, 0, 0, 0>>]

\* _glyphCache.FindOrInsert(fontFace, glyphIndex, inserted)
FindOrInsert(cache, key) ==
    IF key \in DOMAIN cache
    THEN [inserted |-> FALSE, cache |-> cache]
    ELSE [inserted |-> TRUE,
          cache |-> [k \in DOMAIN cache \cup {key} |->
                        IF k = key THEN NewGlyphCacheEntry ELSE cache[k]]]

\* A _drawGlyph that packs and draws glyphs without ink too.
DrawGlyphEmptyToo(font, key, entry, rp) ==
    LET box == GlyphRunBlackBox(key[1], key[2])
        r == PackRect(rp, box.right - box.left + 2, box.bottom - box.top + 2)
    IN  IF ~r.ok
        THEN [ok |-> FALSE, entry |-> entry, rp |-> rp]
        ELSE [ok |-> TRUE,
              entry |-> [shadingType |-> "TextGrayscale",
                         offset |-> <<box.left - 1, box.top - 1>>,
                         texcoord |-> <<r.x, r.y, box.right - box.left + 2,
                                        box.bottom - box.top + 2>>],
              rp |-> r.rp]

\* _drawGlyph(p, entry, fontEmSize): [ok, entry, rp]
DrawGlyph(font, key, entry, rp) ==
    LET box == GlyphRunBlackBox(key[1], key[2])
        left == box.left - 1
        top == box.top - 1
        right == box.right + 1
        bottom == box.bottom + 1
        r == PackRect(rp, right - left, bottom - top)
    IN  IF box.left >= box.right \/ box.top >= box.bottom
        THEN [ok |-> TRUE, entry |-> entry, rp |-> rp]
        ELSE IF ~r.ok
        THEN [ok |-> FALSE, entry |-> entry, rp |-> rp]
        ELSE [ok |-> TRUE,
              entry |-> [shadingType |->
                            IF IsColorGlyph(key[1], key[2]) THEN "Passthrough"
                            ELSE IF font.antialiasingMode = "ClearType"
                            THEN "TextClearType" ELSE "TextGrayscale",
                         offset |-> <<left, top>>,
                         texcoord |-> <<r.x, r.y, right - left, bottom - top>>],
              rp |-> r.rp]

(* The atlas side of the backend as one record a:                           *)
(* [glyphAtlas, rectPacker, glyphCache, beganDrawing, d2dOpen].             *)
(* glyphAtlas.id counts the CreateTexture2D calls that made the atlas (0:   *)
(* none); d2dOpen tells whether the D2D render target of the atlas is       *)
(* between BeginDraw and EndDraw.                                           *)

\* _beginDrawing: [a, calls]
BeginDrawing(a) ==
    IF ~a.beganDrawing
    THEN [a |-> [a EXCEPT !.beganDrawing = TRUE, !.d2dOpen = TRUE],
          calls |-> <<[op |-> "BeginDraw", what |-> "", n |-> 0]>>]
    ELSE [a |-> a, calls |-> <<>>]

\* An _endDrawing that leaves the draw batch open.
EndDrawingNot(a) == [a |-> a, calls |-> <<>>]

\* _endDrawing: [a, calls]
EndDrawing(a) ==
    IF a.beganDrawing
    THEN [a |-> [a EXCEPT !.beganDrawing = FALSE, !.d2dOpen = FALSE],
          calls |-> <<[op |-> "EndDraw", what |-> "", n |-> 0]>>]
    ELSE [a |-> a, calls |-> <<>>]

\* A _resetAtlasAndBeginDraw that keeps the glyph cache.
ResetAtlasKeepingCache(a, targetSize) ==
    LET uv == AtlasSize(targetSize)
        a1 == [a EXCEPT !.rectPacker = RectPackerInit(uv[1], uv[2])]
        bd == BeginDrawing(a1)
    IN  [a |-> bd.a,
         calls |-> bd.calls \o <<[op |-> "Clear", what |-> "atlas", n |-> 0]>>]

\* _resetAtlasAndBeginDraw(p): [a, calls]
ResetAtlasAndBeginDraw(a, targetSize) ==
    LET uv == AtlasSize(targetSize)
        recreate == uv[1] # a.rectPacker.width \/ uv[2] # a.rectPacker.height
        a1 == [a EXCEPT
                !.glyphAtlas = IF recreate
                               THEN [id |-> a.glyphAtlas.id + 1, w |-> uv[1], h |-> uv[2]]
                               ELSE a.glyphAtlas,
                !.d2dOpen = IF recreate THEN FALSE ELSE a.d2dOpen,
                !.glyphCache = <<>>,
                !.rectPacker = RectPackerInit(uv[1], uv[2])]
        bd == BeginDrawing(a1)
    IN  [a |-> bd.a,
         calls |-> (IF recreate
                    THEN <<[op |-> "CreateTexture2D", what |-> "atlas", n |-> uv[1]]>>
                    ELSE <<>>)
                   \o bd.calls
                   \o <<[op |-> "Clear", what |-> "atlas", n |-> 0]>>]

----------------------------------------------------------------------------
(* The resource refresh.  t is the record of what the backend holds of the  *)
(* resources of the refresh, pl the payload.  t also says how the calls go: *)
(* t.calls are the calls made, t.left is the number of calls that can throw *)
(* and will still succeed (a negative number: all of them), and t.failed    *)
(* tells that one has thrown, after which nothing more is done.             *)

GpuCall(op, what) == [op |-> op, what |-> what, n |-> 0]

\* THROW_IF_FAILED(call): t2 is t after the call succeeded
Try(t, call, t2) ==
    IF t.failed THEN t
    ELSE IF t.left = 0 THEN [t EXCEPT !.failed = TRUE]
    ELSE [t2 EXCEPT !.calls = Append(t.calls, call),
                    !.left = IF t.left > 0 THEN t.left - 1 ELSE t.left]

\* statements that do not throw: t2 is t after them
Do(t, t2) == IF t.failed THEN t ELSE t2

\* D3DCompileFromFile succeeds on the file at path
Compiles(path) == path # "broken.hlsl"

\* What the reflection of the compiled shader at path gives for its first
\* variable, the time: that it is used or unused, or the step that fails.
Introspection(path) ==
    CASE path = "unused.hlsl" -> "unused"
      [] path = "reflectFails.hlsl" -> "reflectFails"
      [] path = "noConstantBuffer.hlsl" -> "noConstantBuffer"
      [] path = "noVariable.hlsl" -> "noVariable"
      [] path = "getDescFails.hlsl" -> "getDescFails"
      [] OTHER -> "used"

\* _swapChainManager.UpdateSwapChainSettings(p, ...) and, if the view of the
\* back buffer is gone, CreateRenderTargetView.  The manager makes or
\* resizes its swap chain when the target size is not the one of its swap
\* chain, and has the view released before it does.
UpdateSwapChainSettings(t, s) ==
    LET resized == t.swapChainManager.targetSize # s.targetSize
        t1 == Do(t, [t EXCEPT !.swapChainManager = [targetSize |-> s.targetSize],
                              !.renderTargetView = t.renderTargetView /\ ~resized,
                              !.calls = Append(t.calls,
                                               GpuCall("UpdateSwapChainSettings", "swapChain"))])
    IN  IF t1.renderTargetView THEN t1
        ELSE Try(t1, GpuCall("CreateRenderTargetView", "renderTargetView"),
                 [t1 EXCEPT !.renderTargetView = TRUE])

\* DWrite_GetRenderParams and _d2dRenderTargetUpdateFontSettings;
\* d2dRenderTarget tells whether the render target of the atlas exists
FontSettingsChanged(t, pl, d2dRenderTarget) ==
    Do(t, [t EXCEPT !.textRenderingParams = pl.s.fontGeneration,
                    !.calls = t.calls \o <<GpuCall("DWrite_GetRenderParams", "")>>
                              \o (IF d2dRenderTarget
                                  THEN <<GpuCall("SetTextAntialiasMode", "atlas")>>
                                  ELSE <<>>)])

\* _recreateBackgroundBitmapSamplerState(p)
RecreateBackgroundBitmapSamplerState(t, pl) ==
    Try(t, GpuCall("CreateSamplerState", "backgroundBitmapSamplerState"),
        [t EXCEPT !.backgroundBitmapSamplerState = TRUE])

\* A _recreateCustomShader that takes the time for unused when the
\* reflection of the shader fails.
RecreateCustomShaderOptimistic(t, pl) ==
    LET path == pl.s.misc.customPixelShaderPath
        t1 == [t EXCEPT !.customOffscreenTexture = <<0, 0>>,
                        !.customOffscreenTextureView = FALSE,
                        !.customOffscreenTextureTargetView = FALSE,
                        !.customPixelShader = IF path # "" /\ Compiles(path)
                                              THEN "user" ELSE "none",
                        !.customVertexShader = path # "" /\ Compiles(path),
                        !.customShaderConstantBuffer = path # "" /\ Compiles(path),
                        !.customShaderSamplerState = path # "" /\ Compiles(path),
                        !.requiresContinuousRedraw = path # "" /\ Introspection(path) = "used",
                        !.calls = Append(t.calls, GpuCall("reset", "customShader"))]
    IN  t1

\* A _recreateCustomShader that keeps the custom shader of before when the
\* user shader does not compile.
RecreateCustomShaderKeeping(t, pl) ==
    [t EXCEPT !.calls = Append(t.calls, GpuCall("reset", "customShader")),
              !.customPixelShader = "user",
              !.customVertexShader = TRUE,
              !.customShaderConstantBuffer = TRUE,
              !.customShaderSamplerState = TRUE,
              !.warnings = Append(t.warnings, "D2DERR_SHADER_COMPILE_FAILED")]

\* A _recreateCustomShader that loads the built-in shader whenever the retro
\* effect is enabled.
RecreateCustomShaderRetroFirst(t, pl) ==
    [t EXCEPT !.calls = Append(t.calls, GpuCall("reset", "customShader")),
              !.customOffscreenTexture = <<0, 0>>,
              !.customOffscreenTextureView = FALSE,
              !.customOffscreenTextureTargetView = FALSE,
              !.customPixelShader = IF pl.s.misc.useRetroTerminalEffect THEN "retro"
                                    ELSE IF pl.s.misc.customPixelShaderPath # ""
                                    THEN "user" ELSE "none",
              !.customVertexShader = TRUE,
              !.customShaderConstantBuffer = TRUE,
              !.customShaderSamplerState = TRUE,
              !.requiresContinuousRedraw = FALSE]

\* _recreateCustomShader(p)
RecreateCustomShader(t, pl) ==
    LET path == pl.s.misc.customPixelShaderPath
        t0 == Do(t, [t EXCEPT !.customOffscreenTexture = <<0, 0>>,
                              !.customOffscreenTextureView = FALSE,
                              !.customOffscreenTextureTargetView = FALSE,
                              !.customVertexShader = FALSE,
                              !.customPixelShader = "none",
                              !.customShaderConstantBuffer = FALSE,
                              !.customShaderSamplerState = FALSE,
                              !.requiresContinuousRedraw = FALSE,
                              !.calls = Append(t.calls, GpuCall("reset", "customShader"))])
        \* a user shader
        t1 == Do(t0, [t0 EXCEPT !.requiresContinuousRedraw = TRUE,
                                !.calls = Append(t0.calls,
                                                 GpuCall("D3DCompileFromFile",
                                                         "customPixelShader"))])
        t2 == Try(t1, GpuCall("CreatePixelShader", "customPixelShader"),
                  [t1 EXCEPT !.customPixelShader = "user"])
        t3 == Do(t2, [t2 EXCEPT !.requiresContinuousRedraw =
                                    IF Introspection(path) = "unused" THEN FALSE ELSE @])
        tw == Do(t1, [t1 EXCEPT !.warnings =
                                    IF pl.warningCallback
                                    THEN Append(@, "D2DERR_SHADER_COMPILE_FAILED")
                                    ELSE @])
        \* the built-in shader
        tr == Try(t0, GpuCall("CreatePixelShader", "customPixelShader"),
                  [t0 EXCEPT !.customPixelShader = "retro",
                             !.requiresContinuousRedraw = FALSE])
        ts == IF path # "" THEN (IF Compiles(path) THEN t3 ELSE tw)
              ELSE IF pl.s.misc.useRetroTerminalEffect THEN tr
              ELSE t0
        t4 == Try(ts, GpuCall("CreateVertexShader", "customVertexShader"),
                  [ts EXCEPT !.customVertexShader = TRUE])
        t5 == Try(t4, GpuCall("CreateBuffer", "customShaderConstantBuffer"),
                  [t4 EXCEPT !.customShaderConstantBuffer = TRUE])
        t6 == Try(t5, GpuCall("CreateSamplerState", "customShaderSamplerState"),
                  [t5 EXCEPT !.customShaderSamplerState = TRUE])
    IN  IF ts.customPixelShader # "none" THEN t6 ELSE ts

\* _recreateBackgroundColorBitmap(p)
RecreateBackgroundColorBitmap(t, pl) ==
    LET t0 == Do(t, [t EXCEPT !.backgroundBitmap = <<0, 0>>,
                              !.backgroundBitmapView = FALSE])
        t1 == Try(t0, [op |-> "CreateTexture2D", what |-> "backgroundBitmap",
                       n |-> pl.s.cellCount[1] * pl.s.cellCount[2]],
                  [t0 EXCEPT !.backgroundBitmap = pl.s.cellCount])
    IN  Try(t1, GpuCall("CreateShaderResourceView", "backgroundBitmap"),
            [t1 EXCEPT !.backgroundBitmapView = TRUE])

\* _recreateCustomOffscreenTexture(p)
RecreateCustomOffscreenTexture(t, pl) ==
    LET t0 == Do(t, [t EXCEPT !.customOffscreenTexture = <<0, 0>>,
                              !.customOffscreenTextureView = FALSE,
                              !.customOffscreenTextureTargetView = FALSE])
        t1 == Try(t0, [op |-> "CreateTexture2D", what |-> "customOffscreenTexture",
                       n |-> pl.s.targetSize[1]],
                  [t0 EXCEPT !.customOffscreenTexture = pl.s.targetSize])
        t2 == Try(t1, GpuCall("CreateShaderResourceView", "customOffscreenTexture"),
                  [t1 EXCEPT !.customOffscreenTextureView = TRUE])
    IN  IF pl.s.misc.customPixelShaderPath # ""
        THEN Try(t2, GpuCall("CreateRenderTargetView", "customOffscreenTexture"),
                 [t2 EXCEPT !.customOffscreenTextureTargetView = TRUE])
        ELSE t

\* _recreateConstBuffer(p)
RecreateConstBuffer(t, pl) ==
    Do(t, [t EXCEPT !.constantBuffer =
                        [positionScale |-> pl.s.targetSize,
                         renderParams |-> t.textRenderingParams,
                         dashedLineLength |-> pl.s.font.underlineWidth * 3],
                    !.calls = Append(t.calls, GpuCall("UpdateSubresource", "constantBuffer"))])

\* The rebuild rules of the refresh with the rule of the offscreen texture
\* run first.
RefreshRulesOffscreenFirst == <<"offscreenTexture", "misc", "cellCount", "constBuffer">>

\* the rebuild rules of the refresh, in the order of the code
RefreshRules == <<"misc", "cellCount", "offscreenTexture", "constBuffer">>

\* what the rule does
Rule(name, t, pl) ==
    CASE name = "misc" ->
            RecreateCustomShader(RecreateBackgroundBitmapSamplerState(t, pl), pl)
      [] name = "cellCount" -> RecreateBackgroundColorBitmap(t, pl)
      [] name = "offscreenTexture" -> RecreateCustomOffscreenTexture(t, pl)
      [] name = "constBuffer" -> RecreateConstBuffer(t, pl)

\* Rules that run for a target size that changed as well as for misc
\* settings that changed.
TriggeredOnResize(t, s) ==
    (IF t.targetSize # s.targetSize \/ t.miscGeneration # s.miscGeneration
     THEN {"misc", "offscreenTexture"} ELSE {})
    \cup (IF t.cellCount # s.cellCount THEN {"cellCount"} ELSE {})
    \cup (IF t.targetSize # s.targetSize \/ t.fontGeneration # s.fontGeneration
          THEN {"constBuffer"} ELSE {})

\* the rules that run: fontChanged, miscChanged, targetSizeChanged and
\* cellCountChanged, and the conditions made of them
Triggered(t, s) ==
    LET fontChanged == t.fontGeneration # s.fontGeneration
        miscChanged == t.miscGeneration # s.miscGeneration
        targetSizeChanged == t.targetSize # s.targetSize
        cellCountChanged == t.cellCount # s.cellCount
    IN  (IF miscChanged THEN {"misc"} ELSE {})
        \cup (IF cellCountChanged THEN {"cellCount"} ELSE {})
        \cup (IF targetSizeChanged \/ miscChanged THEN {"offscreenTexture"} ELSE {})
        \cup (IF targetSizeChanged \/ fontChanged THEN {"constBuffer"} ELSE {})

RECURSIVE RunRules(_, _, _, _)
\* the rules of `on` in the order `order`
RunRules(order, on, t, pl) ==
    IF order = <<>> THEN t
    ELSE RunRules(Tail(order), on,
                  IF Head(order) \in on THEN Rule(Head(order), t, pl) ELSE t, pl)

\* the body of `if (_generation != p.s.generation())` with the rules in the
\* order `order`
RefreshInOrder(order, t, pl, d2dRenderTarget) ==
    LET sc == UpdateSwapChainSettings(t, pl.s)
        on == Triggered(t, pl.s)
        f == IF t.fontGeneration # pl.s.fontGeneration
             THEN FontSettingsChanged(sc, pl, d2dRenderTarget) ELSE sc
        r == RunRules(order, on, f, pl)
    IN  Do(r, [r EXCEPT !.generation = pl.s.generation,
                        !.fontGeneration = pl.s.fontGeneration,
                        !.miscGeneration = pl.s.miscGeneration,
                        !.cellCount = pl.s.cellCount])

\* the body of `if (_generation != p.s.generation())`
RefreshBody(t, pl, d2dRenderTarget) == RefreshInOrder(RefreshRules, t, pl, d2dRenderTarget)

\* A refresh that does not look at the generation of the settings.
RefreshAlways(t, pl, d2dRenderTarget) == RefreshBody(t, pl, d2dRenderTarget)

\* the resource refresh of Render
Refresh(t, pl, d2dRenderTarget) ==
    IF t.generation # pl.s.generation
    THEN RefreshBody(t, pl, d2dRenderTarget)
    ELSE t

----------------------------------------------------------------------------
(* The inputs: the payloads the frame orchestrator hands to Render.         *)

\* FontSettings; every length is in pixels, one DIP being one pixel.
Font == [cellSize |-> <<8, 16>>, baselineInDIP |-> 12, thinLineWidth |-> 1,
         underlinePos |-> 13, underlineWidth |-> 1,
         doubleUnderlinePos |-> <<12, 14>>, strikethroughPos |-> 8,
         strikethroughWidth |-> 1, antialiasingMode |-> "ClearType"]

GridLines == {"Left", "Top", "Right", "Bottom", "Underline",
              "HyperlinkUnderline", "DoubleUnderline", "Strikethrough"}

\* A ShapedRow whose glyphs all advance by one cell.
Row(mappings, glyphIndices, gridLineRanges, selectionFrom, selectionTo) ==
    [mappings |-> mappings,
     glyphIndices |-> glyphIndices,
     glyphAdvances |-> [i \in 1..Len(glyphIndices) |-> 8],
     glyphOffsets |-> [i \in 1..Len(glyphIndices) |->
                          [advanceOffset |-> 0, ascenderOffset |-> 0]],
     colors |-> [i \in 1..Len(glyphIndices) |-> Color(255, 1052688 * i)],
     gridLineRanges |-> gridLineRanges,
     selectionFrom |-> selectionFrom,
     selectionTo |-> selectionTo]

\* One font face for all glyphs of the row.
OneMapping(glyphIndices) ==
    IF glyphIndices = <<>> THEN <<>>
    ELSE <<[fontFace |-> "f1", glyphsFrom |-> 0, glyphsTo |-> Len(glyphIndices)]>>

\* The glyph runs of the first row of a payload.
Texts ==
    {[mappings |-> OneMapping(g), glyphIndices |-> g] :
        g \in {<<>>, <<1, 0, 2>>, <<4, 5>>, <<3>>}}
    \cup {[mappings |-> <<[fontFace |-> "f1", glyphsFrom |-> 0, glyphsTo |-> 1],
                          [fontFace |-> "f2", glyphsFrom |-> 1, glyphsTo |-> 2]>>,
           glyphIndices |-> <<1, 1>>]}

\* one colour per cell, all different
BackgroundBitmap(cellCount) ==
    [i \in 1..(cellCount[1] * cellCount[2]) |-> Color(255, 1118481 * i)]

NoCursor == [left |-> 0, top |-> 0, right |-> 0, bottom |-> 0]

\* RenderingPayload: a grid of cellCount cells whose first row shows `text`;
\* with `decorated` the first row has every grid line and the second row is
\* selected.
Payload(cellCount, text, decorated, cursorRect, cursorColor) ==
    [s |-> [targetSize |-> <<cellCount[1] * Font.cellSize[1] + 3,
                             cellCount[2] * Font.cellSize[2]>>,
            cellCount |-> cellCount,
            font |-> Font,
            cursor |-> [cursorColor |-> cursorColor],
            misc |-> [selectionColor |-> Color(255, 255),
                      customPixelShaderPath |-> "",
                      useRetroTerminalEffect |-> FALSE],
            generation |-> 1,
            fontGeneration |-> 1,
            miscGeneration |-> 1],
     rows |-> [y \in 1..cellCount[2] |->
                 IF y = 1
                 THEN Row(text.mappings, text.glyphIndices,
                          IF decorated
                          THEN <<[from |-> 0, to |-> 2, lines |-> GridLines,
                                  color |-> Color(255, 65280)]>>
                          ELSE <<>>,
                          0, 0)
                 ELSE Row(OneMapping(<<1>>), <<1>>, <<>>, 0,
                          IF decorated /\ y = 2 THEN 2 ELSE 0)],
     backgroundBitmap |-> BackgroundBitmap(cellCount),
     cursorRect |-> cursorRect,
     warningCallback |-> TRUE]

Cursors ==
    {[rect |-> NoCursor, color |-> INVALID_COLOR],
     [rect |-> [left |-> 0, top |-> 1, right |-> 1, bottom |-> 2],
      color |-> INVALID_COLOR],
     [rect |-> [left |-> 0, top |-> 1, right |-> 1, bottom |-> 2],
      color |-> Color(255, 16711680)]}

\* LongRow grid line ranges of one line each
LongRanges ==
    [i \in 1..LongRow |-> [from |-> 0, to |-> 1, lines |-> {"Underline"},
                           color |-> Color(255, 65280)]]

\* A frame of one background quad and LongRow grid line quads: more quads
\* than the first allocation of the staging arrays holds.
LongPayload ==
    [Payload(<<2, 1>>, [mappings |-> <<>>, glyphIndices |-> <<>>], FALSE,
             NoCursor, INVALID_COLOR)
        EXCEPT !.rows[1].gridLineRanges = LongRanges]

\* A frame of a window wide enough for an atlas of twice the smallest size.
WidePayload ==
    [Payload(<<3, 2>>, [mappings |-> OneMapping(<<4, 5>>), glyphIndices |-> <<4, 5>>],
             TRUE, NoCursor, INVALID_COLOR)
        EXCEPT !.s.targetSize = <<600, 200>>]

\* The frames the renderer is given.
Payloads ==
    {Payload(<<3, 2>>, t, TRUE, c.rect, c.color) : t \in Texts, c \in Cursors}
    \cup {Payload(<<2, 2>>, t, FALSE, NoCursor, INVALID_COLOR) :
            t \in {x \in Texts : x.glyphIndices \in {<<>>, <<1, 0, 2>>}}}
    \cup {LongPayload, WidePayload}

NoPayload == [s |-> [cellCount |-> <<0, 0>>]]

----------------------------------------------------------------------------
(* The quads of the passes of Render.                                       *)

\* a / b, in thousandths
Ratio(a, b) == (a * 1000) \div b

\* the quad of the background pass
BackgroundQuad(pl) ==
    LET targetWidth == pl.s.targetSize[1]
        targetHeight == pl.s.targetSize[2]
        contentWidth == pl.s.cellCount[1] * pl.s.font.cellSize[1]
        contentHeight == pl.s.cellCount[2] * pl.s.font.cellSize[2]
    IN  QuadInstance(<<0, 0, targetWidth, targetHeight>>,
                     <<0, 0, Ratio(targetWidth, contentWidth),
                       Ratio(targetHeight, contentHeight)>>,
                     Color(0, 0), "Background")

RECURSIVE NormPos(_, _, _, _)
\* The position <<y, m, i>> of the next glyph of the text pass at or after
\* glyph i of mapping m of row y (i < 0: the first glyph of the mapping);
\* y = Len(rows) when there is none.  y and i count from 0, m from 1.
NormPos(rows, y, m, i) ==
    IF y >= Len(rows) THEN <<y, 1, 0>>
    ELSE IF m > Len(rows[y + 1].mappings) THEN NormPos(rows, y + 1, 1, -1)
    ELSE LET mp == rows[y + 1].mappings[m]
             ii == IF i < 0 THEN mp.glyphsFrom ELSE i
         IN  IF ii < mp.glyphsTo THEN <<y, m, ii>>
             ELSE NormPos(rows, y, m + 1, -1)

\* One iteration of the glyph loop up to the call of _drawGlyph:
\* [inserted, ok, a, entry, calls].
GlyphAttempt(a, pl, pos) ==
    LET row == pl.rows[pos[1] + 1]
        key == <<row.mappings[pos[2]].fontFace, row.glyphIndices[pos[3] + 1]>>
        f == FindOrInsert(a.glyphCache, key)
        bd == BeginDrawing([a EXCEPT !.glyphCache = f.cache])
        d == DrawGlyph(pl.s.font, key, f.cache[key], bd.a.rectPacker)
    IN  IF ~f.inserted
        THEN [inserted |-> FALSE, ok |-> TRUE, a |-> a, entry |-> a.glyphCache[key],
              calls |-> <<>>]
        ELSE [inserted |-> TRUE, ok |-> d.ok,
              a |-> [bd.a EXCEPT !.rectPacker = d.rp, !.glyphCache[key] = d.entry],
              entry |-> d.entry,
              calls |-> bd.calls
                        \o <<[op |-> "getGlyphRunBlackBox", what |-> "", n |-> key[2]]>>
                        \o (IF d.ok /\ d.entry.shadingType # "None"
                            THEN <<[op |-> "DrawGlyphRun", what |-> "atlas", n |-> key[2]]>>
                            ELSE <<>>)]

\* the quad of the glyph at pos, whose cache entry is entry
GlyphQuad(pl, pos, entry, cumAdvance) ==
    LET row == pl.rows[pos[1] + 1]
        i == pos[3] + 1
        baselineY == pl.s.font.cellSize[2] * pos[1] + pl.s.font.baselineInDIP
    IN  QuadInstance(<<cumAdvance + row.glyphOffsets[i].advanceOffset + entry.offset[1],
                       baselineY - row.glyphOffsets[i].ascenderOffset + entry.offset[2],
                       entry.texcoord[3], entry.texcoord[4]>>,
                     entry.texcoord, row.colors[i], entry.shadingType)

\* _appendRect(position, color, shadingType)
SolidQuad(position, color, shadingType) ==
    QuadInstance(position, <<0, 0, 0, 0>>, color, shadingType)

\* the quads of one grid line range r of row y
RangeQuads(font, y, r) ==
    LET top == font.cellSize[2] * y
        left == font.cellSize[1] * r.from
        width == font.cellSize[1] * (r.to - r.from)
        If(line, qs) == IF line \in r.lines THEN qs ELSE <<>>
    IN  If("Left", <<SolidQuad(<<left, top, font.thinLineWidth, font.cellSize[2]>>,
                               r.color, "SolidFill")>>)
        \o If("Top", <<SolidQuad(<<left, top, font.cellSize[1], font.thinLineWidth>>,
                                 r.color, "SolidFill")>>)
        \o If("Right", <<SolidQuad(<<left + font.cellSize[1] - font.thinLineWidth, top,
                                     font.thinLineWidth, font.cellSize[2]>>,
                                   r.color, "SolidFill")>>)
        \o If("Bottom", <<SolidQuad(<<left, top + font.cellSize[2] - font.thinLineWidth,
                                      font.cellSize[1], font.thinLineWidth>>,
                                    r.color, "SolidFill")>>)
        \o If("Underline", <<SolidQuad(<<left, top + font.underlinePos, width,
                                         font.underlineWidth>>,
                                       r.color, "SolidFill")>>)
        \o If("HyperlinkUnderline", <<SolidQuad(<<left, top + font.underlinePos, width,
                                                  font.underlineWidth>>,
                                                r.color, "DashedLine")>>)
        \o If("DoubleUnderline",
              <<SolidQuad(<<left, top + font.doubleUnderlinePos[1], width,
                            font.thinLineWidth>>, r.color, "SolidFill"),
                SolidQuad(<<left, top + font.doubleUnderlinePos[2], width,
                            font.thinLineWidth>>, r.color, "SolidFill")>>)
        \o If("Strikethrough", <<SolidQuad(<<left, top + font.strikethroughPos, width,
                                             font.strikethroughWidth>>,
                                           r.color, "SolidFill")>>)

RECURSIVE RowGridLineQuads(_, _, _, _)
\* the quads of the grid line ranges lo..hi-1 (from 0) of row y, in order
RowGridLineQuads(pl, y, lo, hi) ==
    IF hi <= lo THEN <<>>
    ELSE IF hi = lo + 1
         THEN RangeQuads(pl.s.font, y, pl.rows[y + 1].gridLineRanges[lo + 1])
    ELSE LET mid == (lo + hi) \div 2
         IN  RowGridLineQuads(pl, y, lo, mid) \o RowGridLineQuads(pl, y, mid, hi)

RECURSIVE GridLineQuads(_, _)
\* the quads of the grid line pass from row y (from 0) on
GridLineQuads(pl, y) ==
    IF y >= Len(pl.rows) THEN <<>>
    ELSE RowGridLineQuads(pl, y, 0, Len(pl.rows[y + 1].gridLineRanges))
         \o GridLineQuads(pl, y + 1)

RECURSIVE SelectionQuads(_, _)
\* the quads of the selection pass from row y on
SelectionQuads(pl, y) ==
    IF y >= Len(pl.rows) THEN <<>>
    ELSE (IF pl.rows[y + 1].selectionTo > pl.rows[y + 1].selectionFrom
          THEN <<SolidQuad(<<pl.s.font.cellSize[1] * pl.rows[y + 1].selectionFrom,
                             pl.s.font.cellSize[2] * y,
                             pl.s.font.cellSize[1]
                                * (pl.rows[y + 1].selectionTo - pl.rows[y + 1].selectionFrom),
                             pl.s.font.cellSize[2]>>,
                           pl.s.misc.selectionColor, "SolidFill")>>
          ELSE <<>>)
         \o SelectionQuads(pl, y + 1)

\* p.cursorRect.non_empty()
NonEmpty(r) == r.left < r.right /\ r.top < r.bottom

\* rect of the cursor pass, as <<x, y, width, height>>
CursorRectPx(pl) ==
    <<pl.s.font.cellSize[1] * pl.cursorRect.left,
      pl.s.font.cellSize[2] * pl.cursorRect.top,
      pl.s.font.cellSize[1] * (pl.cursorRect.right - pl.cursorRect.left),
      pl.s.font.cellSize[2] * (pl.cursorRect.bottom - pl.cursorRect.top)>>

\* invertColor
InvertColor(color) == [color EXCEPT !.rgb = BitXor(color.rgb, InvertMask)]

\* idx of the cursor pass: the element of backgroundBitmap the inversion reads
CursorBackgroundIndex(pl) == pl.cursorRect.top * pl.s.cellCount[2] + pl.cursorRect.left

\* What p.backgroundBitmap[idx] can yield; past the end, whatever is there.
BitmapRead(pl, idx) ==
    IF idx < Len(pl.backgroundBitmap)
    THEN {pl.backgroundBitmap[idx + 1]}
    ELSE {Color(0, 0), Color(85, 5592405)}

\* intersect(clip, r) on xywh rectangles: the clipped r as <<left, top, right, bottom>>
Intersect(clip, r) ==
    <<Max(clip[1], r[1]), Max(clip[2], r[2]),
      Min(clip[1] + clip[3], r[1] + r[3]), Min(clip[2] + clip[4], r[2] + r[4])>>

\* the body of the loop of the cursor inversion for the element ref: what it
\* appends to _vertexInstanceData
InvertedCopy(clip, ref) ==
    LET c == Intersect(clip, ref.rect)
    IN  IF c[1] < c[3] /\ c[2] < c[4]
        THEN <<[rect |-> <<c[1], c[2], c[3] - c[1], c[4] - c[2]>>,
                tex |-> <<ref.tex[1] + (c[1] - ref.rect[1]),
                          ref.tex[2] + (c[2] - ref.rect[2]),
                          c[3] - c[1], c[4] - c[2]>>,
                color |-> InvertColor(ref.color),
                shadingType |-> IF ref.shadingType = "Passthrough"
                                THEN "PassthroughInvert" ELSE ref.shadingType]>>
        ELSE <<>>

\* What reading _vertexInstanceData[i] past its end can yield if it does not fault.
GarbageInstances ==
    {[rect |-> <<0, 0, 0, 0>>, tex |-> <<0, 0, 0, 0>>, color |-> Color(0, 0),
      shadingType |-> "Zero"],
     [rect |-> <<0, 0, 4096, 4096>>, tex |-> <<0, 0, 0, 0>>,
      color |-> Color(85, 5592405), shadingType |-> "Passthrough"]}

\* i < l for size_t values, l being kept as the signed size() - 1
ULess(i, l) == IF l < 0 THEN TRUE ELSE i < l

----------------------------------------------------------------------------
(* The state.                                                               *)

Batch == [instances |-> _instances, indices |-> _indices,
          instancesSize |-> _instancesSize, indicesSize |-> _indicesSize]

SetBatch(b) ==
    /\ _instances' = b.instances
    /\ _indices' = b.indices
    /\ _instancesSize' = b.instancesSize
    /\ _indicesSize' = b.indicesSize

Gpu == [instanceBuffer |-> _instanceBuffer, indexBuffer |-> _indexBuffer,
        instanceBufferSize |-> _instanceBufferSize,
        indexBufferSize |-> _indexBufferSize]

SetGpu(g) ==
    /\ _instanceBuffer' = g.instanceBuffer
    /\ _indexBuffer' = g.indexBuffer
    /\ _instanceBufferSize' = g.instanceBufferSize
    /\ _indexBufferSize' = g.indexBufferSize

Atlas == [glyphAtlas |-> _glyphAtlas, rectPacker |-> _rectPacker,
          glyphCache |-> _glyphCache, beganDrawing |-> beganDrawing,
          d2dOpen |-> d2dOpen]

SetAtlas(a) ==
    /\ _glyphAtlas' = a.glyphAtlas
    /\ _rectPacker' = a.rectPacker
    /\ _glyphCache' = a.glyphCache
    /\ beganDrawing' = a.beganDrawing
    /\ d2dOpen' = a.d2dOpen

\* what the hot reload of the shaders in debug builds reads and writes
debugVars == <<_sourceCodeInvalidationTime, now, invalidationTime, watcher,
               _vertexShader, _textPixelShader, watch>>

batchVars == <<_instances, _indices, _instancesSize, _indicesSize>>
gpuVars == <<_instanceBuffer, _indexBuffer, _instanceBufferSize, _indexBufferSize>>
atlasVars == <<_glyphAtlas, _rectPacker, _glyphCache, beganDrawing, d2dOpen>>

\* what the resource refresh reads and writes, before any call of it
Tracker ==
    [generation |-> _generation,
     fontGeneration |-> _fontGeneration,
     miscGeneration |-> _miscGeneration,
     targetSize |-> _targetSize,
     cellCount |-> _cellCount,
     renderTargetView |-> _renderTargetView,
     swapChainManager |-> _swapChainManager,
     textRenderingParams |-> _textRenderingParams,
     backgroundBitmapSamplerState |-> _backgroundBitmapSamplerState,
     customPixelShader |-> _customPixelShader,
     customVertexShader |-> _customVertexShader,
     customShaderConstantBuffer |-> _customShaderConstantBuffer,
     customShaderSamplerState |-> _customShaderSamplerState,
     customOffscreenTexture |-> _customOffscreenTexture,
     customOffscreenTextureView |-> _customOffscreenTextureView,
     customOffscreenTextureTargetView |-> _customOffscreenTextureTargetView,
     backgroundBitmap |-> _backgroundBitmap,
     backgroundBitmapView |-> _backgroundBitmapView,
     constantBuffer |-> _constantBuffer,
     requiresContinuousRedraw |-> _requiresContinuousRedraw,
     warnings |-> warnings,
     calls |-> <<>>, left |-> -1, failed |-> FALSE]

SetTracker(t) ==
    /\ _generation' = t.generation
    /\ _fontGeneration' = t.fontGeneration
    /\ _miscGeneration' = t.miscGeneration
    /\ _targetSize' = t.targetSize
    /\ _cellCount' = t.cellCount
    /\ _renderTargetView' = t.renderTargetView
    /\ _swapChainManager' = t.swapChainManager
    /\ _textRenderingParams' = t.textRenderingParams
    /\ _backgroundBitmapSamplerState' = t.backgroundBitmapSamplerState
    /\ _customPixelShader' = t.customPixelShader
    /\ _customVertexShader' = t.customVertexShader
    /\ _customShaderConstantBuffer' = t.customShaderConstantBuffer
    /\ _customShaderSamplerState' = t.customShaderSamplerState
    /\ _customOffscreenTexture' = t.customOffscreenTexture
    /\ _customOffscreenTextureView' = t.customOffscreenTextureView
    /\ _customOffscreenTextureTargetView' = t.customOffscreenTextureTargetView
    /\ _backgroundBitmap' = t.backgroundBitmap
    /\ _backgroundBitmapView' = t.backgroundBitmapView
    /\ _constantBuffer' = t.constantBuffer
    /\ _requiresContinuousRedraw' = t.requiresContinuousRedraw
    /\ warnings' = t.warnings

trackerVars == <<_generation, _fontGeneration, _miscGeneration, _targetSize,
                 _cellCount, _renderTargetView, _swapChainManager,
                 _textRenderingParams, _backgroundBitmapSamplerState,
                 _customPixelShader, _customVertexShader,
                 _customShaderConstantBuffer, _customShaderSamplerState,
                 _customOffscreenTexture, _customOffscreenTextureView,
                 _customOffscreenTextureTargetView, _backgroundBitmap,
                 _backgroundBitmapView, _constantBuffer,
                 _requiresContinuousRedraw, warnings>>

\* qs are passed to _appendRect one after the other by the pass `pass`
Queue(qs, pass) ==
    /\ SetBatch(AppendRects(Batch, qs))
    /\ frameQuads' = frameQuads \o qs
    /\ passes' = IF qs = <<>> THEN passes
                 ELSE IF passes # <<>> /\ passes[Len(passes)].pass = pass
                 THEN [passes EXCEPT ![Len(passes)].n = @ + Len(qs)]
                 ELSE Append(passes, [pass |-> pass, n |-> Len(qs)])

\* the Render call in progress enters the stage st
Stage(st) ==
    trace' = IF trace # <<>> /\ trace[Len(trace)] = st /\ st = "glyph"
             THEN trace ELSE Append(trace, st)

\* the value of _sourceCodeInvalidationTime that says that no compilation
\* is due: the largest integer of the model stands for the largest of 64 bits
INT64_MAX == 2147483647

\* the 100 ms between the change of a file and the compilation, the unit of
\* the clock
InvalidationDelay == 1

\* the callback of the folder watcher is not running
NoCallback == [pc |-> "idle", invalidationTime |-> 0]

\* what the window thread reads and writes
windowVars == <<_host, _warmWindow, _peasant, _UpdateSettingsRequestedToken,
                _dispatcher, messages, thread, events>>

\* a null std::unique_ptr<IslandWindow>
NoWindow == [id |-> 0, closed |-> FALSE]

\* a null std::shared_ptr<AppHost>
NoHost == [exists |-> FALSE, window |-> NoWindow, handlers |-> {},
           initialized |-> FALSE, closed |-> FALSE]

\* the state after construction
Init ==
    /\ pc = "idle"
    /\ p = NoPayload
    /\ _instances = BufferNew(0)
    /\ _indices = BufferNew(0)
    /\ _instancesSize = 0
    /\ _indicesSize = 0
    /\ _instanceBuffer = NoBuffer
    /\ _indexBuffer = NoBuffer
    /\ _instanceBufferSize = 0
    /\ _indexBufferSize = 0
    /\ _vertexInstanceData = <<>>
    /\ _glyphAtlas = [id |-> 0, w |-> 0, h |-> 0]
    /\ _rectPacker = RectPackerInit(0, 0)
    /\ _glyphCache = <<>>
    /\ beganDrawing = FALSE
    /\ d2dOpen = FALSE
    /\ textPos = <<0, 1, 0>>
    /\ cumulativeAdvance = 0
    /\ scan = [i |-> 0, l |-> 0, oob |-> 0]
    /\ calls = <<>>
    /\ trace = <<>>
    /\ frameQuads = <<>>
    /\ passes = <<>>
    /\ flushMark = 0
    /\ packFailures = 0
    /\ frames = 0
    /\ _generation = 0
    /\ _fontGeneration = 0
    /\ _miscGeneration = 0
    /\ _targetSize = <<0, 0>>
    /\ _cellCount = <<0, 0>>
    /\ _renderTargetView = FALSE
    /\ _swapChainManager = [targetSize |-> <<0, 0>>]
    /\ _textRenderingParams = 0
    /\ _backgroundBitmapSamplerState = FALSE
    /\ _customPixelShader = "none"
    /\ _customVertexShader = FALSE
    /\ _customShaderConstantBuffer = FALSE
    /\ _customShaderSamplerState = FALSE
    /\ _customOffscreenTexture = <<0, 0>>
    /\ _customOffscreenTextureView = FALSE
    /\ _customOffscreenTextureTargetView = FALSE
    /\ _backgroundBitmap = <<0, 0>>
    /\ _backgroundBitmapView = FALSE
    /\ _constantBuffer = [positionScale |-> <<0, 0>>, renderParams |-> 0,
                          dashedLineLength |-> 0]
    /\ _requiresContinuousRedraw = FALSE
    /\ warnings = <<>>
    /\ _sourceCodeInvalidationTime = INT64_MAX
    /\ now = 0
    /\ invalidationTime = INT64_MAX
    /\ watcher = NoCallback
    /\ _vertexShader = [file |-> "shader_vs", version |-> 0]
    /\ _textPixelShader = [file |-> "shader_ps", version |-> 0]
    /\ watch = [edits |-> 0, others |-> 0, armed |-> 0, armedEdit |-> 0,
                compiles |-> 0, unserved |-> FALSE, outcome |-> "none"]
    /\ _host = NoHost
    /\ _warmWindow = NoWindow
    /\ _peasant = ""
    /\ _UpdateSettingsRequestedToken = 0
    /\ _dispatcher = FALSE
    /\ messages = <<>>
    /\ thread = [pc |-> "idle", exitCode |-> -1, calls |-> 0, posted |-> 0, windows |-> 0]
    /\ events = <<>>
    /\ previous = NoPayload.s

----------------------------------------------------------------------------
(* Render(p), step by step.                                                 *)

\* the settings s without their generations
Content(s) == [s EXCEPT !.generation = 0, !.fontGeneration = 0, !.miscGeneration = 0]

\* The settings s as they follow the settings prev: the generation of a
\* group of settings grows when the group was written, which it was if it
\* is named in written or if its content differs, and the generation of
\* the settings grows with that of each group.
FollowingSettings(prev, s, written) ==
    IF prev = NoPayload.s THEN s
    ELSE LET font == "font" \in written \/ s.font # prev.font
             misc == "misc" \in written \/ s.misc # prev.misc
             any == font \/ misc \/ written # {} \/ Content(s) # Content(prev)
         IN  [s EXCEPT !.generation = prev.generation + (IF any THEN 1 ELSE 0),
                       !.fontGeneration = prev.fontGeneration + (IF font THEN 1 ELSE 0),
                       !.miscGeneration = prev.miscGeneration + (IF misc THEN 1 ELSE 0)]

\* The frame orchestrator calls Render with one of the payloads pls, after
\* one of the sets of groups of settings in writes was written.
RenderWith(pls, writes) ==
    /\ pc \in {"idle", "failed"}
    /\ frames < MaxFrames
    /\ \E pl \in pls, written \in writes :
          p' = [pl EXCEPT !.s = FollowingSettings(p.s, pl.s, written)]
    /\ previous' = p.s
    /\ pc' = "refresh"
    /\ frames' = frames + 1
    /\ calls' = <<>>
    /\ trace' = <<>>
    /\ frameQuads' = <<>>
    /\ passes' = <<>>
    /\ flushMark' = 0
    /\ packFailures' = 0
    /\ UNCHANGED <<windowVars, debugVars, trackerVars, batchVars, gpuVars, atlasVars, _vertexInstanceData,
                   textPos, cumulativeAdvance, scan>>

\* Render is called with a payload whose settings were written only where
\* they differ from those of the call before.
RenderBegin == RenderWith(Payloads, {{}})

\* the resource refresh
ResourceRefresh ==
    /\ pc = "refresh"
    /\ pc' = "reset"
    /\ LET r == Refresh(Tracker, p, _glyphAtlas.id > 0)
       IN  SetTracker(r) /\ calls' = calls \o r.calls
    /\ Stage("refresh")
    /\ UNCHANGED <<windowVars, debugVars, p, previous, batchVars, gpuVars, atlasVars, _vertexInstanceData,
                   textPos, cumulativeAdvance, scan, frameQuads, passes, flushMark,
                   packFailures, frames>>

\* _instancesSize = 0; _indicesSize = 0; and the pipeline state
ResetQueue ==
    /\ pc = "reset"
    /\ pc' = "background"
    /\ _instancesSize' = 0
    /\ _indicesSize' = 0
    /\ Stage("reset")
    /\ UNCHANGED <<windowVars, debugVars, trackerVars, previous, p, _instances, _indices, gpuVars, atlasVars, _vertexInstanceData,
                   textPos, cumulativeAdvance, scan, calls, frameQuads, passes, flushMark,
                   packFailures, frames>>

\* the upload of the background bitmap and the background quad
Background ==
    /\ pc = "background"
    /\ pc' = "textBegin"
    /\ Queue(<<BackgroundQuad(p)>>, "background")
    /\ calls' = Append(calls, [op |-> "Map", what |-> "backgroundBitmap",
                               n |-> Len(p.backgroundBitmap)])
    /\ Stage("background")
    /\ UNCHANGED <<windowVars, debugVars, trackerVars, previous, p, gpuVars, atlasVars, _vertexInstanceData, textPos,
                   cumulativeAdvance, scan, flushMark, packFailures, frames>>

\* if (!_glyphAtlas) _resetAtlasAndBeginDraw(p); and the start of the glyph loop
TextBegin ==
    /\ pc = "textBegin"
    /\ pc' = "text"
    /\ LET r == IF _glyphAtlas.id = 0
                THEN ResetAtlasAndBeginDraw(Atlas, p.s.targetSize)
                ELSE [a |-> Atlas, calls |-> <<>>]
       IN  SetAtlas(r.a) /\ calls' = calls \o r.calls
    /\ textPos' = NormPos(p.rows, 0, 1, -1)
    /\ cumulativeAdvance' = 0
    /\ UNCHANGED <<windowVars, debugVars, trackerVars, previous, p, batchVars, gpuVars, _vertexInstanceData, scan, trace,
                   frameQuads, passes, flushMark, packFailures, frames>>

\* one glyph: found in the cache, or inserted and drawn into the atlas
TextGlyph ==
    /\ pc = "text"
    /\ textPos[1] < Len(p.rows)
    /\ LET g == GlyphAttempt(Atlas, p, textPos)
           next == NormPos(p.rows, textPos[1], textPos[2], textPos[3] + 1)
       IN  /\ g.ok
           /\ SetAtlas(g.a)
           /\ calls' = calls \o g.calls
           /\ Queue(IF g.entry.shadingType # "None"
                    THEN <<GlyphQuad(p, textPos, g.entry, cumulativeAdvance)>>
                    ELSE <<>>, "glyph")
           /\ textPos' = next
           /\ cumulativeAdvance' =
                IF next[1] = textPos[1]
                THEN cumulativeAdvance + p.rows[textPos[1] + 1].glyphAdvances[textPos[3] + 1]
                ELSE 0
    /\ pc' = "text"
    /\ Stage("glyph")
    /\ UNCHANGED <<windowVars, debugVars, trackerVars, previous, p, gpuVars, _vertexInstanceData, scan, flushMark, packFailures,
                   frames>>

\* one glyph that fails to pack: _endDrawing, _flushRects,
\* _resetAtlasAndBeginDraw, and the same glyph again.  The EndDraw of
\* _endDrawing fails or not when the render target is not between BeginDraw
\* and EndDraw; if it fails Render throws there.
TextPackFailure ==
    /\ pc = "text"
    /\ textPos[1] < Len(p.rows)
    /\ packFailures < MaxPackFailures
    /\ LET g == GlyphAttempt(Atlas, p, textPos)
           e == EndDrawing(g.a)
           r == ResetAtlasAndBeginDraw(e.a, p.s.targetSize)
       IN  /\ ~g.ok
           /\ \E ok \in (IF g.a.beganDrawing /\ ~g.a.d2dOpen THEN BOOLEAN ELSE {TRUE}) :
                IF ok
                THEN /\ SetAtlas(r.a)
                     /\ \E fr \in Fresh(Batch) :
                          LET f == FlushRects(Batch, Gpu, p.s.cellCount, fr[1], fr[2])
                          IN  /\ SetBatch(f.b)
                              /\ SetGpu(f.gpu)
                              /\ calls' = calls \o g.calls \o e.calls \o f.calls \o r.calls
                     /\ pc' = "text"
                     /\ trace' = trace \o <<"packFailure", "flush", "atlasReset">>
                     /\ flushMark' = Len(frameQuads)
                     /\ packFailures' = packFailures + 1
                ELSE /\ SetAtlas(g.a)
                     /\ calls' = calls \o g.calls \o e.calls
                     /\ pc' = "failed"
                     /\ trace' = Append(trace, "packFailure")
                     /\ UNCHANGED <<windowVars, debugVars, trackerVars, previous, batchVars, gpuVars, flushMark, packFailures>>
    /\ UNCHANGED <<windowVars, debugVars, trackerVars, previous, p, _vertexInstanceData, textPos, cumulativeAdvance, scan,
                   frameQuads, passes, frames>>

\* after the glyph loop: if (beganDrawing) EndDraw().  EndDraw fails or not
\* when the render target is not between BeginDraw and EndDraw.
TextEnd ==
    /\ pc = "text"
    /\ textPos[1] >= Len(p.rows)
    /\ \E ok \in (IF beganDrawing /\ ~d2dOpen THEN BOOLEAN ELSE {TRUE}) :
          pc' = IF ok THEN "gridLines" ELSE "failed"
    /\ d2dOpen' = IF beganDrawing THEN FALSE ELSE d2dOpen
    /\ calls' = IF beganDrawing
                THEN Append(calls, [op |-> "EndDraw", what |-> "", n |-> 0])
                ELSE calls
    /\ UNCHANGED <<windowVars, debugVars, trackerVars, previous, p, batchVars, gpuVars, _glyphAtlas, _rectPacker, _glyphCache,
                   beganDrawing, _vertexInstanceData, textPos, cumulativeAdvance,
                   scan, trace, frameQuads, passes, flushMark, packFailures, frames>>

\* the grid line pass
GridLinePass ==
    /\ pc = "gridLines"
    /\ pc' = "cursor"
    /\ Queue(GridLineQuads(p, 0), "gridLine")
    /\ Stage("gridLines")
    /\ UNCHANGED <<windowVars, debugVars, trackerVars, previous, p, gpuVars, atlasVars, _vertexInstanceData, textPos,
                   cumulativeAdvance, scan, calls, flushMark, packFailures, frames>>

\* A cursor pass that queues the quad of a cursor with a colour twice.
CursorFixedTwice ==
    /\ pc = "cursor"
    /\ ~(NonEmpty(p.cursorRect) /\ p.s.cursor.cursorColor = INVALID_COLOR)
    /\ pc' = "selection"
    /\ Queue(IF NonEmpty(p.cursorRect)
             THEN <<SolidQuad(CursorRectPx(p), p.s.cursor.cursorColor, "SolidFill"),
                    SolidQuad(CursorRectPx(p), p.s.cursor.cursorColor, "SolidFill")>>
             ELSE <<>>, "cursor")
    /\ Stage("cursor")
    /\ UNCHANGED <<windowVars, debugVars, trackerVars, previous, p, gpuVars, atlasVars, _vertexInstanceData, textPos,
                   cumulativeAdvance, scan, calls, flushMark, packFailures, frames>>

\* the cursor pass with an empty cursor rectangle or a cursor colour
CursorFixed ==
    /\ pc = "cursor"
    /\ ~(NonEmpty(p.cursorRect) /\ p.s.cursor.cursorColor = INVALID_COLOR)
    /\ pc' = "selection"
    /\ Queue(IF NonEmpty(p.cursorRect)
             THEN <<SolidQuad(CursorRectPx(p), p.s.cursor.cursorColor, "SolidFill")>>
             ELSE <<>>, "cursor")
    /\ Stage("cursor")
    /\ UNCHANGED <<windowVars, debugVars, trackerVars, previous, p, gpuVars, atlasVars, _vertexInstanceData, textPos,
                   cumulativeAdvance, scan, calls, flushMark, packFailures, frames>>

\* the cursor pass of an inverting cursor, up to the loop over _vertexInstanceData
CursorInvert ==
    /\ pc = "cursor"
    /\ NonEmpty(p.cursorRect)
    /\ p.s.cursor.cursorColor = INVALID_COLOR
    /\ pc' = "cursorScan"
    /\ \E backgroundColor \in BitmapRead(p, CursorBackgroundIndex(p)) :
          Queue(<<SolidQuad(CursorRectPx(p), InvertColor(backgroundColor), "SolidFill")>>,
                "cursor")
    /\ scan' = [i |-> 0, l |-> Len(_vertexInstanceData) - 1, oob |-> 0]
    /\ Stage("cursor")
    /\ UNCHANGED <<windowVars, debugVars, trackerVars, previous, p, gpuVars, atlasVars, _vertexInstanceData, textPos,
                   cumulativeAdvance, calls, flushMark, packFailures, frames>>

\* What _vertexInstanceData[i] yields: the element or, past the end of the
\* vector, a fault or (MaxOobReads times) some value.
ReadInstance(vec, i, oob) ==
    IF i < Len(vec)
    THEN {[fault |-> FALSE, ref |-> vec[i + 1]]}
    ELSE {[fault |-> TRUE, ref |-> <<>>]}
         \cup (IF oob < MaxOobReads
               THEN {[fault |-> FALSE, ref |-> g] : g \in GarbageInstances}
               ELSE {})

\* for (i = 0, l = _vertexInstanceData.size() - 1; i < l; ++i): the test and,
\* if it holds, one iteration
CursorScan ==
    /\ pc = "cursorScan"
    /\ IF ~ULess(scan.i, scan.l)
       THEN /\ pc' = "selection"
            /\ UNCHANGED <<windowVars, debugVars, trackerVars, previous, _vertexInstanceData, scan>>
       ELSE \E r \in ReadInstance(_vertexInstanceData, scan.i, scan.oob) :
              IF r.fault
              THEN /\ pc' = "crashed"
                   /\ UNCHANGED <<windowVars, debugVars, trackerVars, previous, _vertexInstanceData, scan>>
              ELSE /\ pc' = "cursorScan"
                   /\ _vertexInstanceData' =
                        _vertexInstanceData \o InvertedCopy(CursorRectPx(p), r.ref)
                   /\ scan' = [scan EXCEPT !.i = scan.i + 1,
                                 !.oob = IF scan.i < Len(_vertexInstanceData)
                                         THEN scan.oob ELSE scan.oob + 1]
    /\ UNCHANGED <<windowVars, debugVars, trackerVars, previous, p, batchVars, gpuVars, atlasVars, textPos, cumulativeAdvance,
                   calls, trace, frameQuads, passes, flushMark, packFailures, frames>>

\* A selection pass that leaves Render without the final flush.
SelectionPassUnflushed ==
    /\ pc = "selection"
    /\ pc' = "present"
    /\ Queue(SelectionQuads(p, 0), "selection")
    /\ Stage("selection")
    /\ UNCHANGED <<windowVars, debugVars, trackerVars, previous, p, gpuVars, atlasVars, _vertexInstanceData, textPos,
                   cumulativeAdvance, scan, calls, flushMark, packFailures, frames>>

\* the selection pass
SelectionPass ==
    /\ pc = "selection"
    /\ pc' = "flush"
    /\ Queue(SelectionQuads(p, 0), "selection")
    /\ Stage("selection")
    /\ UNCHANGED <<windowVars, debugVars, trackerVars, previous, p, gpuVars, atlasVars, _vertexInstanceData, textPos,
                   cumulativeAdvance, scan, calls, flushMark, packFailures, frames>>

\* the _flushRects(p) that ends the passes
FinalFlush ==
    /\ pc = "flush"
    /\ pc' = "present"
    /\ \E fr \in Fresh(Batch) :
          LET f == FlushRects(Batch, Gpu, p.s.cellCount, fr[1], fr[2])
          IN  SetBatch(f.b) /\ SetGpu(f.gpu) /\ calls' = calls \o f.calls
    /\ flushMark' = Len(frameQuads)
    /\ Stage("flush")
    /\ UNCHANGED <<windowVars, debugVars, trackerVars, previous, p, atlasVars, _vertexInstanceData, textPos, cumulativeAdvance,
                   scan, frameQuads, passes, packFailures, frames>>

\* _swapChainManager.Present(p), and Render returns
Present ==
    /\ pc = "present"
    /\ pc' = "idle"
    /\ calls' = Append(calls, [op |-> "Present", what |-> "", n |-> 0])
    /\ Stage("present")
    /\ UNCHANGED <<windowVars, debugVars, trackerVars, previous, p, batchVars, gpuVars, atlasVars, _vertexInstanceData, textPos,
                   cumulativeAdvance, scan, frameQuads, passes, flushMark, packFailures,
                   frames>>

Next ==
    \/ RenderBegin
    \/ ResourceRefresh
    \/ ResetQueue
    \/ Background
    \/ TextBegin
    \/ TextGlyph
    \/ TextPackFailure
    \/ TextEnd
    \/ GridLinePass
    \/ CursorFixed
    \/ CursorInvert
    \/ CursorScan
    \/ SelectionPass
    \/ FinalFlush
    \/ Present

Spec == Init /\ [][Next]_vars

----------------------------------------------------------------------------
(* Render with settings written between the calls: the font settings, the   *)
(* misc settings, or another group of the settings.                         *)

\* a payload whose user shader is at path
ShaderPayload(pl, path) == [pl EXCEPT !.s.misc.customPixelShaderPath = path]

RefreshPayloads ==
    {ShaderPayload(
         Payload(<<3, 2>>, [mappings |-> OneMapping(<<4, 5>>), glyphIndices |-> <<4, 5>>],
                 TRUE, [left |-> 0, top |-> 1, right |-> 1, bottom |-> 2], Color(255, 255)),
         "shader.hlsl"),
     \* the settings of the payload above and no text
     ShaderPayload(
         Payload(<<3, 2>>, [mappings |-> <<>>, glyphIndices |-> <<>>],
                 FALSE, NoCursor, Color(255, 255)),
         "shader.hlsl"),
     Payload(<<3, 2>>, [mappings |-> OneMapping(<<1, 0, 2>>), glyphIndices |-> <<1, 0, 2>>],
             TRUE, [left |-> 0, top |-> 1, right |-> 1, bottom |-> 2], INVALID_COLOR),
     Payload(<<2, 2>>, [mappings |-> <<>>, glyphIndices |-> <<>>], FALSE,
             NoCursor, INVALID_COLOR)}

\* the groups of settings written between two Render calls
Writes == {{}, {"font"}, {"misc"}, {"cursor"}}

RenderBeginWritten == RenderWith(RefreshPayloads, Writes)

NextRefresh ==
    \/ RenderBeginWritten
    \/ ResourceRefresh
    \/ ResetQueue
    \/ Background
    \/ TextBegin
    \/ TextGlyph
    \/ TextPackFailure
    \/ TextEnd
    \/ GridLinePass
    \/ CursorFixed
    \/ CursorInvert
    \/ CursorScan
    \/ SelectionPass
    \/ FinalFlush
    \/ Present

SpecRefresh == Init /\ [][NextRefresh]_vars

----------------------------------------------------------------------------
(* The size computation of the atlas on its own: _resetAtlasAndBeginDraw    *)
(* run for payloads of many target sizes, among them the largest ones.      *)

\* Atlas textures created per behaviour.
MaxAtlasTextures == 2

\* the widths and heights of the target sizes
TargetLengths == {0, 1, 255, 256, 257, 985, 1946, 2048, 16384, 32768, 32769,
                  65534, 65535}

\* _resetAtlasAndBeginDraw(p) for a payload of target size <<x, y>>
AtlasResetFor(x, y) ==
    /\ _glyphAtlas.id < MaxAtlasTextures
    /\ p' = [Payload(<<2, 2>>, [mappings |-> <<>>, glyphIndices |-> <<>>], FALSE,
                     NoCursor, INVALID_COLOR)
               EXCEPT !.s.targetSize = <<x, y>>]
    /\ LET r == ResetAtlasAndBeginDraw(Atlas, <<x, y>>)
       IN  SetAtlas(r.a) /\ calls' = r.calls
    /\ UNCHANGED <<windowVars, debugVars, trackerVars, previous, pc, batchVars, gpuVars, _vertexInstanceData, textPos,
                   cumulativeAdvance, scan, trace, frameQuads, passes, flushMark,
                   packFailures, frames>>

NextAtlas == \E x, y \in TargetLengths : AtlasResetFor(x, y)

SpecAtlas == Init /\ [][NextAtlas]_vars


----------------------------------------------------------------------------
(* The quad queue (claims C1 to C5).                                        *)

\* Render is past the reset of the queue: frameQuads from flushMark on are
\* the quads appended since the last flush or the frame start.
Queueing == pc \notin {"refresh", "reset"}

\* the index _appendRect writes at position j (from 0) of the index array
IndexAt(j) == 4 * (j \div 6) + <<0, 1, 2, 3, 2, 1>>[(j % 6) + 1]

\* the number of calls `op` among cs
CountCalls(cs, op) == Cardinality({i \in 1..Len(cs) : cs[i].op = op})

\* the number of entries st of the trace tr
CountStage(tr, st) == Cardinality({i \in 1..Len(tr) : tr[i] = st})

\* C1: after any sequence of _appendRect calls since the last flush or frame
\* start, positions 0..n-1 of the instance array hold the n appended quads in
\* append order, and the index array the indices written for them, however
\* often _bumpInstancesSize grew the arrays in between.
C1_GrowthPreservesQueue ==
    Queueing =>
        /\ _instancesSize = Len(frameQuads) - flushMark
        /\ Written(_instances, _instancesSize)
        /\ SubSeq(_instances.data, 1, _instancesSize)
             = SubSeq(frameQuads, flushMark + 1, Len(frameQuads))
        /\ Written(_indices, _indicesSize)
        /\ \A j \in 0..(_indicesSize - 1) : _indices.data[j + 1] = IndexAt(j)

\* C2: the index count is six times the instance count in every state; after
\* N appends without a flush the instance count is N; the indices of the k-th
\* quad still in the index array are 4k+0, 4k+1, 4k+2, 4k+3, 4k+2, 4k+1 in
\* that order; and neither count nor any written position exceeds the size of
\* its array.
C2_CountsAndIndices ==
    /\ _indicesSize = 6 * _instancesSize
    /\ Queueing => _instancesSize = Len(frameQuads) - flushMark
    /\ _instancesSize <= _instances.size
    /\ _indicesSize <= _indices.size
    /\ Len(_instances.data) <= _instances.size
    /\ Len(_indices.data) <= _indices.size
    /\ \A j \in 0..(_indicesSize - 1) :
          BufAt(_indices, j, UninitIndex) # UninitIndex
             => _indices.data[j + 1] = IndexAt(j)

\* more quads are queued than the first allocation of the arrays holds
C2_Witness ==
    /\ Queueing
    /\ _instancesSize > MinInstances
    /\ _instances.size = 2 * MinInstances
    /\ _indicesSize = 6 * _instancesSize

\* the calls the step adds
NewCalls == SubSeq(calls', Len(calls) + 1, Len(calls'))

\* the step runs _flushRects
FlushStep == CountStage(trace', "flush") = CountStage(trace, "flush") + 1

\* the calls of cs that _flushRects makes on the GPU buffers of the queue
BufferCalls(cs) ==
    {i \in 1..Len(cs) :
        \/ cs[i].op = "DrawIndexed"
        \/ cs[i].op \in {"Map", "CreateBuffer"} /\ cs[i].what \in {"instance", "index"}}

C4_EmptyFlushChangesNothing ==
    [][FlushStep /\ _instancesSize = 0 =>
        /\ UNCHANGED <<windowVars, debugVars, trackerVars, previous, _instances, _indices, _instancesSize, _indicesSize>>
        /\ UNCHANGED <<windowVars, debugVars, trackerVars, previous, _instanceBuffer, _indexBuffer, _instanceBufferSize,
                       _indexBufferSize>>
        /\ BufferCalls(NewCalls) = {}]_vars

\* _flushRects has run twice in a frame whose only quad the first run drew
C4_Witness ==
    /\ CountStage(trace, "flush") = 2
    /\ Len(frameQuads) = 1
    /\ flushMark = 1
    /\ _instancesSize = 0
    /\ CountCalls(calls, "DrawIndexed") = 1

\* C5: the GPU instance buffer is created anew only by a flush whose instance
\* count exceeds the recorded capacity, and then the recorded capacity is
\* max(cellCount.x * cellCount.y, count + count / 2) and the size of the new
\* buffer; a flush copies no more elements than the capacity; the recorded
\* capacity never decreases; likewise the index buffer with the index count.
C5_GpuBufferGrowth ==
    [][LET cells == p.s.cellCount[1] * p.s.cellCount[2]
       IN  /\ _instanceBuffer'.id # _instanceBuffer.id =>
                 /\ FlushStep
                 /\ _instancesSize > _instanceBufferSize
                 /\ _instanceBufferSize'
                       = Max(cells, _instancesSize + (_instancesSize \div 2))
           /\ _indexBuffer'.id # _indexBuffer.id =>
                 /\ FlushStep
                 /\ _indicesSize > _indexBufferSize
                 /\ _indexBufferSize'
                       = Max(cells, _indicesSize + (_indicesSize \div 2))
           /\ _instanceBuffer'.size = _instanceBufferSize'
           /\ _indexBuffer'.size = _indexBufferSize'
           /\ Len(_instanceBuffer'.data) <= _instanceBufferSize'
           /\ Len(_indexBuffer'.data) <= _indexBufferSize'
           /\ _instanceBufferSize' >= _instanceBufferSize
           /\ _indexBufferSize' >= _indexBufferSize]_vars

\* a later frame has outgrown the GPU buffers of an earlier one
C5_Witness ==
    /\ _instanceBuffer.id >= 2
    /\ _indexBuffer.id >= 2
    /\ frames >= 2
    /\ _instanceBufferSize > MinInstances

----------------------------------------------------------------------------
(* The order of a frame (claims C6 and C7).                                 *)

FrameHead == <<"refresh", "reset", "background">>

FrameTail == <<"gridLines", "cursor", "selection", "flush", "present">>

\* tr is a prefix of the stages of a Render call in their order: the head,
\* the stages of the text pass, the tail
StagesInOrder(tr) ==
    \E a \in 0..Len(FrameHead), b \in 0..Len(FrameTail) :
        /\ a + b <= Len(tr)
        /\ SubSeq(tr, 1, a) = SubSeq(FrameHead, 1, a)
        /\ SubSeq(tr, Len(tr) - b + 1, Len(tr)) = SubSeq(FrameTail, 1, b)
        /\ a < Len(FrameHead) => Len(tr) = a
        /\ \A i \in (a + 1)..(Len(tr) - b) :
              tr[i] \in {"glyph", "packFailure", "flush", "atlasReset"}

PassRank(pass) ==
    CASE pass = "background" -> 1
      [] pass = "glyph" -> 2
      [] pass = "gridLine" -> 3
      [] pass = "cursor" -> 4
      [] pass = "selection" -> 5

\* C6: the stages of a Render call come in the order refresh, queue reset,
\* background, text pass, grid lines, cursor, selection, final flush,
\* Present; the background quad is the first quad of the frame and the quads
\* of the passes follow in that order, the glyphs row after row; Present is
\* called at most once, after every draw call, and exactly once by the time
\* Render returns.
C6_FrameOrder ==
    [][/\ StagesInOrder(trace')
       /\ \A i \in 1..(Len(passes') - 1) :
             PassRank(passes'[i].pass) < PassRank(passes'[i + 1].pass)
       /\ frameQuads' # <<>> =>
             /\ frameQuads'[1] = BackgroundQuad(p')
             /\ passes'[1] = [pass |-> "background", n |-> 1]
       /\ pc = "text" /\ pc' = "text" => textPos'[1] >= textPos[1]
       /\ CountCalls(calls', "Present") <= 1
       /\ \A i \in 1..Len(calls') :
             calls'[i].op = "Present"
                => /\ i = Len(calls')
                   /\ trace'[Len(trace')] = "present"
                   /\ trace'[Len(trace') - 1] = "flush"
       /\ pc' = "idle" => CountCalls(calls', "Present") = 1]_vars

\* a Render call with quads of all five passes has returned
C6_Witness ==
    /\ pc = "idle"
    /\ Len(passes) = 5
    /\ trace[Len(trace)] = "present"
    /\ CountCalls(calls, "Present") = 1

\* C7: a Render call that returns has made one draw call and one more for
\* each pack failure, and without pack failure its draw call holds every
\* quad of the frame.
C7_OneDrawPerFrame ==
    pc = "idle" /\ frames > 0 =>
        /\ CountCalls(calls, "DrawIndexed") = 1 + packFailures
        /\ packFailures = 0 => _instanceBuffer.data = frameQuads

----------------------------------------------------------------------------
(* The inverting cursor (claims C8 to C10).                                 *)

\* the frame has an inverting cursor and its cursor pass has queued the fill
Inverting ==
    /\ passes # <<>>
    /\ passes[Len(passes)].pass \in {"cursor", "selection"}
    /\ NonEmpty(p.cursorRect)
    /\ p.s.cursor.cursorColor = INVALID_COLOR

\* the cursor pass is over
CursorPassOver == pc \in {"selection", "flush", "present", "idle", "crashed"}

\* the position in frameQuads of the first quad of the cursor pass: the fill
CursorFill ==
    LET before == {i \in 1..Len(passes) : PassRank(passes[i].pass) < 4}
        RECURSIVE Sum(_)
        Sum(S) == IF S = {} THEN 0
                  ELSE LET i == CHOOSE x \in S : TRUE
                       IN  passes[i].n + Sum(S \ {i})
    IN  Sum(before) + 1

\* the quads the cursor pass queued after the fill
CursorExtras ==
    LET c == CHOOSE i \in 1..Len(passes) : passes[i].pass = "cursor"
    IN  SubSeq(frameQuads, CursorFill + 1, CursorFill + passes[c].n - 1)

\* the quad q intersects the clip rectangle
Intersects(clip, q) ==
    LET c == Intersect(clip, q.position)
    IN  c[1] < c[3] /\ c[2] < c[4]

\* the intersection of q with the clip rectangle, as xywh
Clipped(clip, q) ==
    LET c == Intersect(clip, q.position)
    IN  <<c[1], c[2], c[3] - c[1], c[4] - c[2]>>

\* C8: with an inverting cursor, the cursor pass queues after the fill quad
\* one quad for each earlier quad of the frame that intersects the cursor
\* rectangle, in their order, with the intersection as rectangle and the
\* colour XOR 0xC0C0C0, and no other quad.
C8_InversionQuads ==
    Inverting /\ CursorPassOver =>
        LET src == SelectSeq(SubSeq(frameQuads, 1, CursorFill - 1),
                             LAMBDA q : Intersects(CursorRectPx(p), q))
        IN  /\ Len(CursorExtras) = Len(src)
            /\ \A i \in 1..Len(src) :
                  /\ CursorExtras[i].position = Clipped(CursorRectPx(p), src[i])
                  /\ CursorExtras[i].color.a = src[i].color.a
                  /\ CursorExtras[i].color.rgb = BitXor(src[i].color.rgb, InvertMask)

\* C9: the fill quad of an inverting cursor has the colour of the background
\* bitmap at column cursorRect.left of row cursorRect.top, rows being
\* cellCount.x long, XOR 0xC0C0C0.
C9_FillColor ==
    Inverting =>
        LET idx == p.cursorRect.top * p.s.cellCount[1] + p.cursorRect.left
        IN  /\ frameQuads[CursorFill].color.a = p.backgroundBitmap[idx + 1].a
            /\ frameQuads[CursorFill].color.rgb
                  = BitXor(p.backgroundBitmap[idx + 1].rgb, InvertMask)

\* C10: every earlier quad that intersects the inverting cursor has, among
\* the quads queued after the fill and before the selection pass, a copy
\* whose texture rectangle is shifted by the offset of the intersection and
\* has its size, and whose shading type is PassthroughInvert for Passthrough
\* and the source's otherwise.
C10_InversionTexAndShading ==
    Inverting /\ CursorPassOver =>
        \A k \in 1..(CursorFill - 1) :
            Intersects(CursorRectPx(p), frameQuads[k]) =>
                \E j \in 1..Len(CursorExtras) :
                    LET q == frameQuads[k]
                        c == Clipped(CursorRectPx(p), q)
                    IN  /\ CursorExtras[j].texcoord
                              = <<q.texcoord[1] + (c[1] - q.position[1]),
                                  q.texcoord[2] + (c[2] - q.position[2]),
                                  c[3], c[4]>>
                        /\ CursorExtras[j].shadingType
                              = IF q.shadingType = "Passthrough"
                                THEN "PassthroughInvert" ELSE q.shadingType

----------------------------------------------------------------------------
(* The cursor with a colour (claim C11).                                    *)

\* C11: with a non-empty cursor rectangle and a cursor colour other than
\* INVALID_COLOR the cursor pass appends one quad, a solid fill of that
\* colour over the cursor rectangle, and nothing else; with an empty cursor
\* rectangle it appends nothing.
C11_FixedCursor ==
    [][pc = "cursor" =>
        /\ ~NonEmpty(p.cursorRect) =>
              /\ frameQuads' = frameQuads
              /\ _instancesSize' = _instancesSize
        /\ NonEmpty(p.cursorRect) /\ p.s.cursor.cursorColor # INVALID_COLOR =>
              /\ frameQuads' =
                    Append(frameQuads,
                           [position |->
                               <<p.s.font.cellSize[1] * p.cursorRect.left,
                                 p.s.font.cellSize[2] * p.cursorRect.top,
                                 p.s.font.cellSize[1]
                                    * (p.cursorRect.right - p.cursorRect.left),
                                 p.s.font.cellSize[2]
                                    * (p.cursorRect.bottom - p.cursorRect.top)>>,
                            texcoord |-> <<0, 0, 0, 0>>,
                            color |-> p.s.cursor.cursorColor,
                            shadingType |-> "SolidFill"])
              /\ _instancesSize' = _instancesSize + 1
              /\ pc' = "selection"]_vars

\* the cursor pass has queued the quad of a cursor with a colour
C11_Witness ==
    /\ pc = "selection"
    /\ passes[Len(passes)].pass = "cursor"
    /\ NonEmpty(p.cursorRect)
    /\ p.s.cursor.cursorColor # INVALID_COLOR
    /\ frameQuads[Len(frameQuads)].color = p.s.cursor.cursorColor

----------------------------------------------------------------------------
(* The glyph atlas (claims C12 to C15).                                     *)

\* the step handles a pack failure to its end
PackFailureStep == packFailures' = packFailures + 1

\* the positions in cs of the calls that replace or clear the atlas texture
AtlasResetCalls(cs) ==
    {i \in 1..Len(cs) : cs[i].what = "atlas" /\ cs[i].op \in {"CreateTexture2D", "Clear"}}

\* C12 as amended: a pack failure is handled by, in this order, EndDraw, the
\* flush of every queued quad, the reset of the atlas (a new texture of the
\* computed size if that size differs from the packer's, the same texture
\* otherwise, cleared in both cases, with an empty glyph cache and an empty
\* packer of the computed size), and the same glyph again; nothing stays
\* queued across the reset.
C12_PackFailureOrder ==
    [][PackFailureStep =>
        LET cs == NewCalls
            uv == AtlasSize(p.s.targetSize)
            resize == uv # <<_rectPacker.width, _rectPacker.height>>
            ends == {i \in 1..Len(cs) : cs[i].op = "EndDraw"}
        IN  /\ Cardinality(ends) = 1
            /\ \A i \in ends : \A j \in BufferCalls(cs) : i < j
            /\ \A j \in ends \cup BufferCalls(cs) : \A k \in AtlasResetCalls(cs) : j < k
            /\ _instancesSize > 0 =>
                  Cardinality({i \in 1..Len(cs) : cs[i].op = "DrawIndexed"}) = 1
            /\ _instancesSize' = 0
            /\ _indicesSize' = 0
            /\ cs[Len(cs)] = [op |-> "Clear", what |-> "atlas", n |-> 0]
            /\ (\E i \in 1..Len(cs) : cs[i].op = "CreateTexture2D") <=> resize
            /\ _glyphAtlas' = IF resize
                              THEN [id |-> _glyphAtlas.id + 1, w |-> uv[1], h |-> uv[2]]
                              ELSE _glyphAtlas
            /\ _glyphCache' = <<>>
            /\ _rectPacker' = RectPackerInit(uv[1], uv[2])
            /\ textPos' = textPos
            /\ frameQuads' = frameQuads
            /\ pc' = "text"]_vars

\* C12 as stated: every pack failure discards the atlas texture and creates
\* a new one.
C12_AtlasRecreated ==
    [][PackFailureStep =>
        /\ _glyphAtlas'.id = _glyphAtlas.id + 1
        /\ \E i \in 1..Len(NewCalls) : NewCalls[i].op = "CreateTexture2D"]_vars

\* a pack failure has been handled with the atlas texture of before
C12_Witness ==
    /\ packFailures = 1
    /\ trace[Len(trace)] = "atlasReset"
    /\ _glyphAtlas.id = 1
    /\ _glyphCache = <<>>
    /\ CountCalls(calls, "DrawIndexed") = 1
    /\ Cardinality({i \in 1..Len(calls) :
          calls[i] = [op |-> "CreateTexture2D", what |-> "atlas", n |-> 256]}) = 1

\* C13: a glyph that fails to pack again directly after the reset of the
\* atlas ends the Render call with a failure instead of another flush, reset
\* and retry.
C13_RepeatedPackFailureIsFatal ==
    [][(/\ trace # <<>>
        /\ trace[Len(trace)] = "atlasReset"
        /\ Len(trace') > Len(trace)
        /\ trace'[Len(trace) + 1] = "packFailure")
          => /\ pc' = "failed"
             /\ packFailures' = packFailures]_vars


\* the cache key of the glyph the glyph loop looks at
GlyphKey ==
    LET row == p.rows[textPos[1] + 1]
    IN  <<row.mappings[textPos[2]].fontFace, row.glyphIndices[textPos[3] + 1]>>

\* the step is one iteration of the glyph loop
GlyphStep == pc = "text" /\ textPos[1] < Len(p.rows)

\* the step runs _resetAtlasAndBeginDraw
AtlasResetStep == AtlasResetCalls(NewCalls) # {}

\* the step calls op for glyph n
CallsFor(op, n) == \E i \in 1..Len(NewCalls) : NewCalls[i].op = op /\ NewCalls[i].n = n

\* C14: every reset of the atlas leaves the glyph cache empty; the cache
\* loses entries only in such a reset, and then all of them; a glyph that is
\* looked up and not in the cache is measured and, if it has ink and fits,
\* drawn into the atlas again.
C14_ResetEmptiesCache ==
    [][/\ AtlasResetStep => _glyphCache' = <<>>
       /\ \/ DOMAIN _glyphCache \subseteq DOMAIN _glyphCache'
          \/ AtlasResetStep /\ _glyphCache' = <<>>
       /\ \A k \in DOMAIN _glyphCache \cap DOMAIN _glyphCache' :
             _glyphCache'[k] = _glyphCache[k]
       /\ (GlyphStep /\ GlyphKey \notin DOMAIN _glyphCache) =>
             /\ CallsFor("getGlyphRunBlackBox", GlyphKey[2])
             /\ (GlyphKey \in DOMAIN _glyphCache'
                 /\ _glyphCache'[GlyphKey].shadingType # "None") =>
                   CallsFor("DrawGlyphRun", GlyphKey[2])]_vars

\* in a second frame a glyph did not fit the atlas of the first frame, the
\* atlas was reset, and the glyph was drawn into the atlas again
C14_Witness ==
    /\ frames = 2
    /\ packFailures = 1
    /\ <<"f1", 4>> \in DOMAIN _glyphCache
    /\ \E j, k \in 1..Len(calls) :
          /\ j < k
          /\ calls[j] = [op |-> "Clear", what |-> "atlas", n |-> 0]
          /\ calls[k] = [op |-> "DrawGlyphRun", what |-> "atlas", n |-> 4]

\* C15: a glyph with an empty ink box gets a cache entry of shading type
\* zero, takes no space of the packer, is not drawn into the atlas, queues no
\* quad wherever it occurs, and is not measured again while its entry is in
\* the cache.
C15_EmptyGlyph ==
    [][(GlyphStep /\ GlyphKey[2] = 0) =>
          /\ GlyphKey \in DOMAIN _glyphCache'
          /\ _glyphCache'[GlyphKey] = [shadingType |-> "None", offset |-> <<0, 0>>,
                                       texcoord |-> <<0, 0, 0, 0>>]
          /\ _rectPacker' = _rectPacker
          /\ frameQuads' = frameQuads
          /\ _instancesSize' = _instancesSize
          /\ ~CallsFor("DrawGlyphRun", 0)
          /\ GlyphKey \in DOMAIN _glyphCache => ~CallsFor("getGlyphRunBlackBox", 0)
          /\ textPos' # textPos
          /\ pc' = "text"]_vars

\* in a second frame the glyph loop has passed a glyph without ink that the
\* first frame put into the cache
C15_Witness ==
    /\ frames = 2
    /\ pc = "text"
    /\ textPos[1] = 0 /\ textPos[3] = 2
    /\ p.rows[1].glyphIndices[2] = 0
    /\ <<"f1", 0>> \in DOMAIN _glyphCache
    /\ _glyphCache[<<"f1", 0>>].shadingType = "None"
    /\ \A i \in 1..Len(calls) : calls[i].op # "getGlyphRunBlackBox"


----------------------------------------------------------------------------
(* The size of the atlas (claims C16 and C17), under SpecAtlas.             *)

\* n is a power of two
IsPow2(n) == \E k \in 0..16 : n = Pow2(k)

\* the u32 a is below 2^b
Below(a, b) == IF b >= 16 THEN a.hi < Pow2(b - 16) ELSE a.hi = 0 /\ a.lo < Pow2(b)

\* max(65536, x * y) for the target size of the payload of the next state
TargetArea == WideMax([hi |-> 1, lo |-> 0], Mul16(p'.s.targetSize[1], p'.s.targetSize[2]))

\* C16: for every target size the width w and the height h of the atlas are
\* powers of two with max(65536, A) <= w * h < 4 * max(65536, A), A being
\* the area of the target; 985 x 1946 gives 2048 x 1024.
C16_AtlasDimensions ==
    [][AtlasResetStep =>
        LET w == _rectPacker'.width
            h == _rectPacker'.height
        IN  /\ IsPow2(w)
            /\ IsPow2(h)
            /\ ~WideLess(Mul16(w, h), TargetArea)
            /\ WideLess(Mul16(w, h), [hi |-> 4 * TargetArea.hi + (4 * TargetArea.lo) \div 65536,
                                      lo |-> (4 * TargetArea.lo) % 65536])
            /\ p'.s.targetSize = <<985, 1946>> => <<w, h>> = <<2048, 1024>>]_vars

\* C17 as amended: with bits the number of bits of area - 1, the width of
\* the atlas is 2 raised to floor((bits + 1) / 2) and its height 2 raised to
\* floor(bits / 2), each limited to 65535.
C17_AtlasExponents ==
    [][AtlasResetStep =>
        \E bits \in 16..32 :
            /\ Below(WideDec(TargetArea), bits)
            /\ ~Below(WideDec(TargetArea), bits - 1)
            /\ _rectPacker'.width = Min(65535, Pow2((bits + 1) \div 2))
            /\ _rectPacker'.height = Min(65535, Pow2(bits \div 2))
            /\ _glyphAtlas'.w = _rectPacker'.width
            /\ _glyphAtlas'.h = _rectPacker'.height]_vars

\* C17 as stated: the exponents are ceil((bits + 2) / 2) and
\* ceil((bits + 1) / 2).
C17_StatedExponents ==
    [][AtlasResetStep =>
        \E bits \in 16..32 :
            /\ Below(WideDec(TargetArea), bits)
            /\ ~Below(WideDec(TargetArea), bits - 1)
            /\ _rectPacker'.width = Pow2((bits + 3) \div 2)
            /\ _rectPacker'.height = Pow2((bits + 2) \div 2)]_vars

\* the atlas of a target of 985 x 1946 pixels, whose area - 1 has 21 bits
C17_Witness ==
    /\ p.s.cellCount # <<0, 0>>
    /\ p.s.targetSize = <<985, 1946>>
    /\ _glyphAtlas.id > 0
    /\ <<_glyphAtlas.w, _glyphAtlas.h>> = <<2048, 1024>>
    /\ <<_rectPacker.width, _rectPacker.height>> = <<2048, 1024>>


----------------------------------------------------------------------------
(* The resource refresh (claims C18 to C20), under SpecRefresh.             *)

\* the positions in cs of the calls that rebuild a resource of the refresh
RebuildCalls(cs) ==
    {i \in 1..Len(cs) :
        \/ cs[i].what \in {"backgroundBitmapSamplerState", "customShader",
                           "customPixelShader", "customVertexShader",
                           "customShaderConstantBuffer", "customShaderSamplerState",
                           "customOffscreenTexture", "constantBuffer"}
        \/ cs[i].what = "backgroundBitmap" /\ cs[i].op # "Map"}

\* cs has a call op on what
Has(cs, op, what) == \E i \in 1..Len(cs) : cs[i].op = op /\ cs[i].what = what

\* a Render call came before the one in progress
Second == previous # NoPayload.s

\* the step is the resource refresh
RefreshStep == pc = "refresh" /\ pc' = "reset"

\* C18: a Render call whose payload has the generations of the payload of
\* the call before rebuilds nothing: no sampler state, custom shader,
\* background bitmap or offscreen texture is created and the constant
\* buffer is not written.
C18_SameGenerationsNoRebuild ==
    (/\ Second
     /\ p.s.generation = previous.generation
     /\ p.s.fontGeneration = previous.fontGeneration
     /\ p.s.miscGeneration = previous.miscGeneration)
        => RebuildCalls(calls) = {}

\* a second Render call with the generations of the first has come to its end
C18_Witness ==
    /\ Second
    /\ pc = "idle"
    /\ frames = 2
    /\ p.s.generation = previous.generation
    /\ p.s.fontGeneration = previous.fontGeneration
    /\ p.s.miscGeneration = previous.miscGeneration
    /\ Has(calls, "Present", "")
    /\ ~Has(calls, "UpdateSwapChainSettings", "swapChain")

\* C19: the refresh of a Render call after the first creates the custom
\* offscreen texture only if the target size or the misc generation is not
\* that of the call before, writes the constant buffer only if the target
\* size or the font generation is not that of the call before, and leaves
\* the target size of the payload in _targetSize.
C19_RebuildOnlyWhatChanged ==
    [][(RefreshStep /\ Second) =>
        /\ Has(NewCalls, "CreateTexture2D", "customOffscreenTexture") =>
              \/ p.s.targetSize # previous.targetSize
              \/ p.s.miscGeneration # previous.miscGeneration
        /\ Has(NewCalls, "UpdateSubresource", "constantBuffer") =>
              \/ p.s.targetSize # previous.targetSize
              \/ p.s.fontGeneration # previous.fontGeneration
        /\ _generation' # _generation => _targetSize' = p.s.targetSize]_vars

\* C20 as amended: the refresh creates the sampler state of the background
\* bitmap and recreates the custom shader in exactly the Render calls whose
\* misc generation is not that of the call before (and in the first one); a
\* target size that changed does not cause it.
C20_SamplerAndShaderOnMisc ==
    [][RefreshStep =>
        LET misc == ~Second \/ p.s.miscGeneration # previous.miscGeneration
        IN  /\ Has(NewCalls, "CreateSamplerState", "backgroundBitmapSamplerState") <=> misc
            /\ Has(NewCalls, "reset", "customShader") <=> misc
            /\ ~misc => \A i \in 1..Len(NewCalls) :
                  NewCalls[i].what \notin {"customPixelShader", "customVertexShader",
                                           "customShaderConstantBuffer",
                                           "customShaderSamplerState"}]_vars

\* C20 as stated: they are recreated in exactly the Render calls whose
\* target size or misc generation is not that of the call before.
C20_SamplerAndShaderOnResize ==
    [][RefreshStep =>
        LET changed == \/ ~Second
                       \/ p.s.miscGeneration # previous.miscGeneration
                       \/ p.s.targetSize # previous.targetSize
        IN  /\ Has(NewCalls, "CreateSamplerState", "backgroundBitmapSamplerState") <=> changed
            /\ Has(NewCalls, "reset", "customShader") <=> changed]_vars

\* a refresh has run for a target size that is not that of the call before
\* and the same misc generation, and has not created the sampler state
C20_Witness ==
    /\ Second
    /\ pc = "reset"
    /\ p.s.targetSize # previous.targetSize
    /\ p.s.miscGeneration = previous.miscGeneration
    /\ Has(calls, "UpdateSwapChainSettings", "swapChain")
    /\ Has(calls, "UpdateSubresource", "constantBuffer")
    /\ ~Has(calls, "CreateSamplerState", "backgroundBitmapSamplerState")
    /\ ~Has(calls, "reset", "customShader")

----------------------------------------------------------------------------
(* Allocation in a frame of unchanged settings.                             *)

\* the calls that create a texture, a view, a sampler, a shader or a buffer
AllocationOps ==
    {"CreateTexture2D", "CreateShaderResourceView", "CreateRenderTargetView",
     "CreateSamplerState", "CreatePixelShader", "CreateVertexShader", "CreateBuffer",
     "CreateDxgiSurfaceRenderTarget"}

\* the calls of cs that allocate
Allocations(cs) == {i \in 1..Len(cs) : cs[i].op \in AllocationOps}

\* the Render call in progress has the generations of the call before
SameGenerations ==
    /\ Second
    /\ p.s.generation = previous.generation
    /\ p.s.fontGeneration = previous.fontGeneration
    /\ p.s.miscGeneration = previous.miscGeneration

\* C21 as amended: a Render call whose generations are those of the call
\* before allocates nothing in its resource refresh; what it allocates is
\* the glyph atlas, when the text pass finds none or one of another size
\* than the target asks for, and the instance and index buffers, when a
\* flush finds more instances or indices queued than the buffer holds.
C21_AllocationOnlyOnDemand ==
    [][SameGenerations =>
        /\ RefreshStep => NewCalls = <<>>
        /\ \A i \in Allocations(NewCalls) :
              \/ /\ NewCalls[i].what = "atlas"
                 /\ _glyphAtlas' # _glyphAtlas
                 /\ pc \in {"textBegin", "text"}
              \/ /\ NewCalls[i].what = "instance"
                 /\ _instancesSize > _instanceBufferSize
                 /\ _instanceBufferSize' >= _instancesSize
              \/ /\ NewCalls[i].what = "index"
                 /\ _indicesSize > _indexBufferSize
                 /\ _indexBufferSize' >= _indicesSize]_vars

\* C21 as stated: such a Render call allocates nothing at all.
C21_NoAllocation == SameGenerations => Allocations(calls) = {}

\* a Render call with the generations of the call before has created an
\* instance buffer and has come to its end
C21_Witness ==
    /\ SameGenerations
    /\ pc = "idle"
    /\ Has(calls, "CreateBuffer", "instance")
    /\ Has(calls, "Present", "")
    /\ ~Has(calls, "UpdateSwapChainSettings", "swapChain")

----------------------------------------------------------------------------
(* The custom shader.  The frames of this specification have no text and    *)
(* differ in the misc settings: the path of the user shader, the retro      *)
(* effect, and whether the caller has set a warning callback.               *)

\* the files a user shader path can name, and no path
ShaderPaths ==
    {"", "used.hlsl", "unused.hlsl", "reflectFails.hlsl", "noConstantBuffer.hlsl",
     "noVariable.hlsl", "getDescFails.hlsl", "broken.hlsl"}

\* a frame without text with the misc settings path, retro, and the
\* warning callback set if callback
MiscPayload(path, retro, callback) ==
    [Payload(<<2, 2>>, [mappings |-> <<>>, glyphIndices |-> <<>>], FALSE,
             NoCursor, INVALID_COLOR)
        EXCEPT !.s.misc.customPixelShaderPath = path,
               !.s.misc.useRetroTerminalEffect = retro,
               !.warningCallback = callback]

ShaderPayloads ==
    {MiscPayload(path, FALSE, TRUE) : path \in ShaderPaths}
    \cup {MiscPayload(path, TRUE, TRUE) : path \in {"", "used.hlsl", "broken.hlsl"}}
    \cup {MiscPayload("broken.hlsl", FALSE, FALSE)}

RenderBeginShader == RenderWith(ShaderPayloads, {{}, {"misc"}})

\* bool BackendD3D11::RequiresContinuousRedraw()
RequiresContinuousRedraw == _requiresContinuousRedraw

NextShader ==
    \/ RenderBeginShader
    \/ ResourceRefresh
    \/ ResetQueue
    \/ Background
    \/ TextBegin
    \/ TextGlyph
    \/ TextEnd
    \/ GridLinePass
    \/ CursorFixed
    \/ SelectionPass
    \/ FinalFlush
    \/ Present

SpecShader == Init /\ [][NextShader]_vars

\* the step is a resource refresh that recomputes the custom shader
ShaderStep == RefreshStep /\ Has(NewCalls, "reset", "customShader")

\* the path of the user shader of the Render call in progress
ShaderPath == p.s.misc.customPixelShaderPath

\* the calls of cs on the resources of the custom shader
CustomShaderCalls(cs) ==
    {i \in 1..Len(cs) :
        cs[i].what \in {"customShader", "customPixelShader", "customVertexShader",
                        "customShaderConstantBuffer", "customShaderSamplerState",
                        "customOffscreenTexture"}}

\* C22: after the custom shader is recomputed for a user shader that
\* compiles, RequiresContinuousRedraw() is false if the reflection of the
\* shader finds the time unused, and true if it finds it used or any of
\* its steps fails.
C22_ContinuousRedraw ==
    [][(ShaderStep /\ ShaderPath \in ShaderPaths \ {"", "broken.hlsl"}) =>
        /\ _customPixelShader' = "user"
        /\ ShaderPath = "unused.hlsl" => ~RequiresContinuousRedraw'
        /\ ShaderPath = "used.hlsl" => RequiresContinuousRedraw'
        /\ ShaderPath \in {"reflectFails.hlsl", "noConstantBuffer.hlsl",
                           "noVariable.hlsl", "getDescFails.hlsl"}
              => RequiresContinuousRedraw']_vars

\* a shader whose time is unused was compiled after one whose reflection
\* failed, and redraw is no longer continuous
C22_Witness ==
    /\ frames = 2
    /\ pc = "idle"
    /\ previous.misc.customPixelShaderPath = "reflectFails.hlsl"
    /\ ShaderPath = "unused.hlsl"
    /\ Has(calls, "CreatePixelShader", "customPixelShader")
    /\ _customPixelShader = "user"
    /\ ~RequiresContinuousRedraw

\* C23: when the user shader does not compile, the Render call goes on, the
\* warning callback, if set, is called once with the code of a shader that
\* failed to compile, and no custom pixel shader, vertex shader, constant
\* buffer or sampler state is held.
C23_CompileFailure ==
    [][(ShaderStep /\ ShaderPath = "broken.hlsl") =>
        /\ pc' = "reset"
        /\ warnings' = IF p.warningCallback
                       THEN Append(warnings, "D2DERR_SHADER_COMPILE_FAILED")
                       ELSE warnings
        /\ _customPixelShader' = "none"
        /\ ~_customVertexShader'
        /\ ~_customShaderConstantBuffer'
        /\ ~_customShaderSamplerState'
        /\ ~Has(NewCalls, "CreatePixelShader", "customPixelShader")]_vars

\* a frame whose user shader did not compile, after a frame with a custom
\* shader, was presented, and the caller was warned once
C23_Witness ==
    /\ frames = 2
    /\ pc = "idle"
    /\ previous.misc.customPixelShaderPath = "used.hlsl"
    /\ ShaderPath = "broken.hlsl"
    /\ p.warningCallback
    /\ Has(calls, "D3DCompileFromFile", "customPixelShader")
    /\ Has(calls, "Present", "")
    /\ warnings = <<"D2DERR_SHADER_COMPILE_FAILED">>
    /\ _customPixelShader = "none"

\* C24: when the misc settings changed, the resources of the custom shader
\* are released before any of them is created; without a user shader path
\* the custom pixel shader is the built-in one if the retro effect is
\* enabled and none otherwise, and RequiresContinuousRedraw() is false; the
\* built-in shader is loaded only without a user shader path.
C24_RetroShader ==
    [][(RefreshStep /\ (~Second \/ p.s.miscGeneration # previous.miscGeneration)) =>
        /\ CustomShaderCalls(NewCalls) # {}
        /\ LET first == CHOOSE i \in CustomShaderCalls(NewCalls) :
                            \A j \in CustomShaderCalls(NewCalls) : i <= j
           IN  NewCalls[first] = GpuCall("reset", "customShader")
        /\ (ShaderPath = "" /\ p.s.misc.useRetroTerminalEffect) =>
              /\ _customPixelShader' = "retro"
              /\ _customVertexShader'
              /\ ~RequiresContinuousRedraw'
        /\ (ShaderPath = "" /\ ~p.s.misc.useRetroTerminalEffect) =>
              /\ _customPixelShader' = "none"
              /\ ~_customVertexShader'
              /\ ~_customShaderConstantBuffer'
              /\ ~_customShaderSamplerState'
              /\ _customOffscreenTexture' = <<0, 0>>
              /\ ~RequiresContinuousRedraw'
        /\ _customPixelShader' = "retro" => ShaderPath = ""]_vars

\* the built-in shader was loaded after a user shader that redraws
\* continuously, and redraw is no longer continuous
C24_Witness ==
    /\ frames = 2
    /\ pc = "idle"
    /\ previous.misc.customPixelShaderPath = "used.hlsl"
    /\ previous.misc.useRetroTerminalEffect
    /\ ShaderPath = ""
    /\ p.s.misc.useRetroTerminalEffect
    /\ _customPixelShader = "retro"
    /\ ~RequiresContinuousRedraw

----------------------------------------------------------------------------
(* The order of the rebuild rules.                                          *)

\* the orders the rebuild rules could be run in
RuleOrders ==
    {o \in [1..Len(RefreshRules) -> {RefreshRules[i] : i \in 1..Len(RefreshRules)}] :
        \A i, j \in 1..Len(RefreshRules) : i # j => o[i] # o[j]}

\* rule a comes before rule b in the order o
Precedes(o, a, b) ==
    \E i, j \in 1..Len(o) : i < j /\ o[i] = a /\ o[j] = b

\* what the backend holds in t, without the calls that made it
Resources(t) == [t EXCEPT !.calls = <<>>]

\* the step is a resource refresh of a payload of another generation
RebuildStep == RefreshStep /\ _generation # p.s.generation

\* C29 as amended: the resources after the refresh are those of the rules
\* run in any order that has the rule of the custom shader before the rule
\* of the offscreen texture, as the code has: the custom shader rule
\* releases the offscreen texture, and the rule of the offscreen texture,
\* run after it in the same frame, creates it again when a user shader path
\* is configured.
C29_ShaderBeforeOffscreenTexture ==
    [][RebuildStep =>
        /\ \A o \in RuleOrders :
              Precedes(o, "misc", "offscreenTexture") =>
                 Resources(RefreshInOrder(o, Tracker, p, _glyphAtlas.id > 0))
                    = Resources(Tracker')
        /\ ((~Second \/ p.s.miscGeneration # previous.miscGeneration) /\ ShaderPath # "") =>
              /\ _customOffscreenTexture' = p.s.targetSize
              /\ _customOffscreenTextureView'
              /\ _customOffscreenTextureTargetView']_vars

\* C29 as stated: the resources after the refresh are those of the rules
\* run in any order.
C29_AnyOrder ==
    [][RebuildStep =>
        \A o \in RuleOrders :
           Resources(RefreshInOrder(o, Tracker, p, _glyphAtlas.id > 0))
              = Resources(Tracker')]_vars

\* the misc settings of a frame with a user shader were written, the custom
\* shader was recreated, and the offscreen texture is there
C29_Witness ==
    /\ Second
    /\ pc = "reset"
    /\ p.s.miscGeneration # previous.miscGeneration
    /\ ShaderPath # ""
    /\ Has(calls, "reset", "customShader")
    /\ Has(calls, "CreateTexture2D", "customOffscreenTexture")
    /\ _customPixelShader = "user"
    /\ _customOffscreenTexture = p.s.targetSize

----------------------------------------------------------------------------
(* The draw batch of the atlas render target.                               *)

\* the BeginDraw and EndDraw calls of cs
DrawCalls(cs) == SelectSeq(cs, LAMBDA c : c.op \in {"BeginDraw", "EndDraw"})

\* the calls op among the first n of cs
CallsBefore(cs, op, n) == Cardinality({i \in 1..n : cs[i].op = op})

\* C30: in every Render call BeginDraw and EndDraw alternate, BeginDraw
\* first; every glyph is drawn and the atlas is cleared between a BeginDraw
\* and its EndDraw; and beganDrawing is true exactly while the render
\* target is between BeginDraw and EndDraw, so it is false when Render has
\* returned.
C30_DrawPairs ==
    /\ \A i \in 1..Len(DrawCalls(calls)) :
          DrawCalls(calls)[i].op = IF i % 2 = 1 THEN "BeginDraw" ELSE "EndDraw"
    /\ \A i \in 1..Len(calls) :
          (calls[i].op \in {"DrawGlyphRun", "Clear"} /\ calls[i].what = "atlas") =>
             CallsBefore(calls, "BeginDraw", i) = CallsBefore(calls, "EndDraw", i) + 1
    /\ beganDrawing <=> d2dOpen
    /\ pc = "idle" => ~beganDrawing

----------------------------------------------------------------------------
(* Calls of the graphics API that fail.  The actions below are the steps of *)
(* Render in which a call wrapped in THROW_IF_FAILED fails: the exception   *)
(* leaves Render, and the history `calls` gets a "throw" after the calls    *)
(* that succeeded.  Of the calls of a step, the ones that can fail here are *)
(* those named in each action.                                              *)

\* the calls of one resource refresh that are wrapped in THROW_IF_FAILED:
\* CreateRenderTargetView, 1 of the sampler state, 4 of the custom shader,
\* 2 of the background bitmap, 3 of the offscreen texture
RefreshThrowingCalls == 11

\* the exception of THROW_IF_FAILED in the pass `what`
Throw(what) == [op |-> "throw", what |-> what, n |-> 0]

\* A THROW_IF_FAILED that logs the failure and goes on with the next stage.
AfterFailureGoesOn(next) == next

\* where Render is after a THROW_IF_FAILED failed, `next` being the stage
\* that would have followed: out of Render
AfterFailure(next) == "failed"

\* the resource refresh, with a call that fails after n that succeeded
RefreshFails ==
    /\ pc = "refresh"
    /\ pc' = AfterFailure("reset")
    /\ \E n \in 0..(RefreshThrowingCalls - 1) :
          LET r == Refresh([Tracker EXCEPT !.left = n], p, _glyphAtlas.id > 0)
          IN  /\ r.failed
              /\ SetTracker(r)
              /\ calls' = calls \o r.calls \o <<Throw("refresh")>>
    /\ Stage("refresh")
    /\ UNCHANGED <<windowVars, debugVars, p, previous, batchVars, gpuVars, atlasVars, _vertexInstanceData,
                   textPos, cumulativeAdvance, scan, frameQuads, passes, flushMark,
                   packFailures, frames>>

\* the upload of the background bitmap, with a Map that fails
BackgroundFails ==
    /\ pc = "background"
    /\ pc' = AfterFailure("textBegin")
    /\ calls' = Append(calls, Throw("backgroundBitmap"))
    /\ Stage("background")
    /\ UNCHANGED <<windowVars, debugVars, trackerVars, previous, p, batchVars, gpuVars, atlasVars,
                   _vertexInstanceData, textPos, cumulativeAdvance, scan, frameQuads,
                   passes, flushMark, packFailures, frames>>

\* if (!_glyphAtlas) _resetAtlasAndBeginDraw(p), with a CreateTexture2D that
\* fails: the atlas and its render target were released before the call
AtlasCreationFails ==
    /\ pc = "textBegin"
    /\ _glyphAtlas.id = 0
    /\ pc' = AfterFailure("text")
    /\ calls' = Append(calls, Throw("atlas"))
    /\ Stage("atlas")
    /\ UNCHANGED <<windowVars, debugVars, trackerVars, previous, p, batchVars, gpuVars, atlasVars,
                   _vertexInstanceData, textPos, cumulativeAdvance, scan, frameQuads,
                   passes, flushMark, packFailures, frames>>

\* the end of the text pass, with an EndDraw that returns the failure of
\* the glyphs drawn since BeginDraw
GlyphDrawingFails ==
    /\ pc = "text"
    /\ textPos[1] >= Len(p.rows)
    /\ beganDrawing /\ d2dOpen
    /\ pc' = AfterFailure("gridLines")
    /\ d2dOpen' = FALSE
    /\ calls' = calls \o <<[op |-> "EndDraw", what |-> "", n |-> 0], Throw("glyph")>>
    /\ Stage("endDraw")
    /\ UNCHANGED <<windowVars, debugVars, trackerVars, previous, p, batchVars, gpuVars, _glyphAtlas, _rectPacker,
                   _glyphCache, beganDrawing, _vertexInstanceData, textPos,
                   cumulativeAdvance, scan, frameQuads, passes, flushMark, packFailures,
                   frames>>

\* the last _flushRects, with a call that fails: the CreateBuffer of the
\* instance buffer, whose old buffer was released before the call, or the
\* Map of the instance buffer, after the buffers have grown
FinalFlushFails ==
    /\ pc = "flush"
    /\ _instancesSize > 0
    /\ pc' = AfterFailure("present")
    /\ \E site \in {"CreateBuffer", "Map"} :
          LET f == FlushRectsBody(Batch, Gpu, p.s.cellCount, UninitQuad, UninitIndex)
              grown == SelectSeq(f.calls, LAMBDA c : c.op = "CreateBuffer")
          IN  IF site = "CreateBuffer"
              THEN /\ _instancesSize > _instanceBufferSize
                   /\ SetGpu([Gpu EXCEPT !.instanceBuffer = NoBuffer])
                   /\ calls' = Append(calls, Throw("flush"))
              ELSE /\ SetGpu([f.gpu EXCEPT !.instanceBuffer.data = Gpu.instanceBuffer.data,
                                           !.indexBuffer.data = Gpu.indexBuffer.data])
                   /\ calls' = calls \o grown \o <<Throw("flush")>>
    /\ Stage("flush")
    /\ UNCHANGED <<windowVars, debugVars, trackerVars, previous, p, batchVars, atlasVars, _vertexInstanceData,
                   textPos, cumulativeAdvance, scan, frameQuads, passes, flushMark,
                   packFailures, frames>>

\* the frames of the Render calls whose calls can fail: a user shader, with
\* and without text
FailurePayloads == {pl \in RefreshPayloads : pl.s.misc.customPixelShaderPath # ""}

RenderBeginFailure == RenderWith(FailurePayloads, {{}, {"misc"}})

NextFailure ==
    \/ RenderBeginFailure
    \/ ResourceRefresh
    \/ RefreshFails
    \/ ResetQueue
    \/ Background
    \/ BackgroundFails
    \/ TextBegin
    \/ AtlasCreationFails
    \/ TextGlyph
    \/ TextEnd
    \/ GlyphDrawingFails
    \/ GridLinePass
    \/ CursorFixed
    \/ SelectionPass
    \/ FinalFlush
    \/ FinalFlushFails
    \/ Present

SpecFailure == Init /\ [][NextFailure]_vars

\* a THROW_IF_FAILED has failed among the calls cs
Thrown(cs) == \E i \in 1..Len(cs) : cs[i].op = "throw"

\* C28: a call of the graphics API that fails in the resource refresh, the
\* upload of the background bitmap, the creation of the atlas, the drawing
\* of the glyphs or the flush ends the Render call at once: the step in
\* which it fails leaves Render, and nothing of the frame comes after it, no
\* pass and no Present; the next step is the next Render call.
C28_FailurePropagates ==
    [][/\ Thrown(NewCalls) => pc' = "failed"
       /\ Thrown(calls) =>
             /\ pc' = "refresh"
             /\ frames' = frames + 1
             /\ calls' = <<>>]_vars

\* the flush of a second frame has failed after its passes have queued
\* their quads, and the frame was not presented
C28_Witness ==
    /\ frames = 2
    /\ pc = "failed"
    /\ calls[Len(calls)] = Throw("flush")
    /\ Len(passes) > 1
    /\ _instancesSize > 0
    /\ ~Has(calls, "Present", "")

----------------------------------------------------------------------------
(* The hot reload of the shaders in debug builds.  The folder watcher runs  *)
(* its callback on a thread of its own whenever a file of the source        *)
(* directory changes; Render begins with _debugUpdateShaders, which         *)
(* compiles the shaders again when the time the callback has set is over.   *)
(* The specifications above are those of a release build, where neither     *)
(* exists.  The frames rendered here are all the same frame.                *)

\* the clock stops here
MaxTime == 3

\* the changes of files of the source directory in a behaviour
MaxEdits == 2

\* A compare_exchange_strong that stores whatever the value is.
ExchangeAlways(value, expected, desired) == desired

\* A compare_exchange_strong that never stores.
ExchangeNever(value, expected, desired) == value

\* _sourceCodeInvalidationTime.compare_exchange_strong(expected, desired):
\* the value of the atomic after it
CompareExchange(value, expected, desired) ==
    IF value = expected THEN desired ELSE value


\* _sourceCodeInvalidationTime.store(stored): the value of the atomic after it
Store(value, stored) == stored

\* the shaders after the compilation of version v of the sources in which
\* the compilation or creation of `failing` fails ("none": of none), one
\* shader moved into its member as soon as it is made
CompileEach(shaders, v, failing) ==
    LET vs == IF failing = "shader_vs.hlsl" THEN shaders.vertexShader
              ELSE [file |-> "shader_vs.hlsl", version |-> v]
        ps1 == IF failing \in {"shader_vs.hlsl", "shader_text_cleartype_ps.hlsl"}
               THEN shaders.textPixelShader
               ELSE [file |-> "shader_text_cleartype_ps.hlsl", version |-> v]
        ps2 == IF failing = "none"
               THEN [file |-> "shader_text_grayscale_ps.hlsl", version |-> v]
               ELSE ps1
    IN  [vertexShader |-> vs, textPixelShader |-> ps2]

\* the files of filesVS and filesPS, in the order they are compiled in
ShaderFiles ==
    <<"shader_vs.hlsl", "shader_text_cleartype_ps.hlsl", "shader_text_grayscale_ps.hlsl">>

\* The shaders after the compilation of version v of the sources in which
\* the compilation or creation of `failing` fails ("none": of none).  All
\* are made before any is moved into its member; both pixel shaders are
\* moved into _textPixelShader, the grayscale one last.
CompileAll(shaders, v, failing) ==
    IF failing = "none"
    THEN [vertexShader |-> [file |-> ShaderFiles[1], version |-> v],
          textPixelShader |-> [file |-> ShaderFiles[3], version |-> v]]
    ELSE shaders

\* the clock goes on
Tick ==
    /\ now < MaxTime
    /\ now' = now + 1
    /\ UNCHANGED <<windowVars, _sourceCodeInvalidationTime, invalidationTime, watcher, _vertexShader,
                   _textPixelShader, watch, trackerVars, previous, p, pc, batchVars,
                   gpuVars, atlasVars, _vertexInstanceData, textPos, cumulativeAdvance,
                   scan, calls, trace, frameQuads, passes, flushMark, packFailures, frames>>

\* a .hlsl file of the source directory changes and the callback begins:
\* invalidationTime = now() + 100ms
WatcherEdit ==
    /\ watcher.pc = "idle"
    /\ watch.edits + watch.others < MaxEdits
    /\ now + InvalidationDelay <= MaxTime
    /\ watcher' = [pc |-> "exchange", invalidationTime |-> now + InvalidationDelay]
    /\ watch' = [watch EXCEPT !.edits = @ + 1, !.unserved = TRUE]
    /\ UNCHANGED <<windowVars, _sourceCodeInvalidationTime, now, invalidationTime, _vertexShader,
                   _textPixelShader, trackerVars, previous, p, pc, batchVars,
                   gpuVars, atlasVars, _vertexInstanceData, textPos, cumulativeAdvance,
                   scan, calls, trace, frameQuads, passes, flushMark, packFailures, frames>>

\* a file of the source directory that is no .hlsl file changes: the
\* callback does nothing
WatcherOtherFile ==
    /\ watcher.pc = "idle"
    /\ watch.edits + watch.others < MaxEdits
    /\ watch' = [watch EXCEPT !.others = @ + 1]
    /\ UNCHANGED <<windowVars, _sourceCodeInvalidationTime, now, invalidationTime, watcher,
                   _vertexShader, _textPixelShader, trackerVars, previous, p, pc, batchVars,
                   gpuVars, atlasVars, _vertexInstanceData, textPos, cumulativeAdvance,
                   scan, calls, trace, frameQuads, passes, flushMark, packFailures, frames>>

\* the compare_exchange_strong of the callback
WatcherExchange ==
    /\ watcher.pc = "exchange"
    /\ _sourceCodeInvalidationTime' =
          CompareExchange(_sourceCodeInvalidationTime, INT64_MAX, watcher.invalidationTime)
    /\ watcher' = NoCallback
    /\ watch' = IF _sourceCodeInvalidationTime' # _sourceCodeInvalidationTime
                THEN [watch EXCEPT !.armed = @ + 1,
                                   !.armedEdit = watcher.invalidationTime - InvalidationDelay]
                ELSE watch
    /\ UNCHANGED <<windowVars, now, invalidationTime, _vertexShader,
                   _textPixelShader, trackerVars, previous, p, pc, batchVars,
                   gpuVars, atlasVars, _vertexInstanceData, textPos, cumulativeAdvance,
                   scan, calls, trace, frameQuads, passes, flushMark, packFailures, frames>>

\* the frame of the Render calls of a debug build
DebugPayload ==
    Payload(<<2, 2>>, [mappings |-> <<>>, glyphIndices |-> <<>>], FALSE,
            NoCursor, INVALID_COLOR)

\* Render is called in a debug build: it begins with _debugUpdateShaders.
\* These calls are not counted in `frames`: there is no last one.
RenderBeginDebug ==
    /\ pc \in {"idle", "failed"}
    /\ p' = [DebugPayload EXCEPT !.s = FollowingSettings(p.s, DebugPayload.s, {})]
    /\ previous' = p.s
    /\ pc' = "debugLoad"
    /\ calls' = <<>>
    /\ trace' = <<>>
    /\ frameQuads' = <<>>
    /\ passes' = <<>>
    /\ flushMark' = 0
    /\ packFailures' = 0
    /\ UNCHANGED <<windowVars, debugVars, trackerVars, batchVars, gpuVars, atlasVars,
                   _vertexInstanceData, textPos, cumulativeAdvance, scan, frames>>

\* _debugUpdateShaders: the load, and the return if no compilation is due
DebugLoad ==
    /\ pc = "debugLoad"
    /\ invalidationTime' = _sourceCodeInvalidationTime
    /\ pc' = IF invalidationTime' = INT64_MAX \/ invalidationTime' > now
             THEN "refresh" ELSE "debugStore"
    /\ UNCHANGED <<windowVars, _sourceCodeInvalidationTime, now, watcher, _vertexShader,
                   _textPixelShader, watch, trackerVars, previous, p, batchVars,
                   gpuVars, atlasVars, _vertexInstanceData, textPos, cumulativeAdvance,
                   scan, calls, trace, frameQuads, passes, flushMark, packFailures, frames>>

\* _debugUpdateShaders: _sourceCodeInvalidationTime.store(INT64_MAX)
DebugStore ==
    /\ pc = "debugStore"
    /\ pc' = "debugCompile"
    /\ _sourceCodeInvalidationTime' = Store(_sourceCodeInvalidationTime, INT64_MAX)
    /\ watch' = [watch EXCEPT !.compiles = @ + 1]
    /\ UNCHANGED <<windowVars, now, invalidationTime, watcher, _vertexShader,
                   _textPixelShader, trackerVars, previous, p, batchVars,
                   gpuVars, atlasVars, _vertexInstanceData, textPos, cumulativeAdvance,
                   scan, calls, trace, frameQuads, passes, flushMark, packFailures, frames>>

\* _debugUpdateShaders: the compilation of the sources as they are, of which
\* any one can fail; the exception of the failure is caught and logged
DebugCompile ==
    /\ pc = "debugCompile"
    /\ pc' = "refresh"
    /\ \E failing \in {"none"} \cup {ShaderFiles[i] : i \in 1..Len(ShaderFiles)} :
          LET r == CompileAll([vertexShader |-> _vertexShader,
                               textPixelShader |-> _textPixelShader],
                              watch.edits, failing)
          IN  /\ _vertexShader' = r.vertexShader
              /\ _textPixelShader' = r.textPixelShader
              /\ watch' = [watch EXCEPT !.unserved = FALSE, !.outcome = failing]
    /\ UNCHANGED <<windowVars, _sourceCodeInvalidationTime, now, invalidationTime, watcher,
                   trackerVars, previous, p, batchVars,
                   gpuVars, atlasVars, _vertexInstanceData, textPos, cumulativeAdvance,
                   scan, calls, trace, frameQuads, passes, flushMark, packFailures, frames>>

\* the steps of the render thread
RenderThread ==
    \/ RenderBeginDebug
    \/ DebugLoad
    \/ DebugStore
    \/ DebugCompile
    \/ ResourceRefresh
    \/ ResetQueue
    \/ Background
    \/ TextBegin
    \/ TextGlyph
    \/ TextEnd
    \/ GridLinePass
    \/ CursorFixed
    \/ SelectionPass
    \/ FinalFlush
    \/ Present

NextWatch ==
    \/ Tick
    \/ WatcherEdit
    \/ WatcherOtherFile
    \/ WatcherExchange
    \/ RenderThread

SpecWatch == Init /\ [][NextWatch]_vars

\* The callback of the watcher runs to its end, and the clock goes on.
SpecWatchLive ==
    /\ SpecWatch
    /\ WF_vars(WatcherExchange)
    /\ WF_vars(Tick)

\* the step is a change of a .hlsl file, with the beginning of the callback
EditStep == watcher.pc = "idle" /\ watcher'.pc = "exchange"

\* the step is the compare_exchange_strong of the callback
ExchangeStep == watcher.pc = "exchange" /\ watcher'.pc = "idle"

\* the step is a change of another file
OtherFileStep == watch'.others # watch.others

\* the step is that in which _debugUpdateShaders sets out to compile
RecompileStep == pc = "debugStore" /\ pc' = "debugCompile"

\* a compilation is due at some time
Pending == _sourceCodeInvalidationTime # INT64_MAX

\* C25: the callback of the watcher sets the time of the compilation, 100 ms
\* after the change, only when none is set; while one is set, further
\* changes leave it as it is, so that the changes of a burst are followed by
\* one compilation, which does not begin before the time set at the first
\* change; a change of a file that is no .hlsl file never sets it.
C25_Debounce ==
    [][/\ EditStep =>
             /\ watcher'.invalidationTime = now + InvalidationDelay
             /\ _sourceCodeInvalidationTime' = _sourceCodeInvalidationTime
       /\ ExchangeStep =>
             _sourceCodeInvalidationTime' =
                IF Pending THEN _sourceCodeInvalidationTime ELSE watcher.invalidationTime
       /\ OtherFileStep =>
             /\ _sourceCodeInvalidationTime' = _sourceCodeInvalidationTime
             /\ watcher' = watcher
       /\ RecompileStep =>
             /\ watch.armedEdit + InvalidationDelay <= now
             /\ watch'.compiles <= watch.armed]_vars

\* two .hlsl files changed while the first time was set, one compilation
\* was made, and none is due
C25_Witness ==
    /\ watch.edits = 2
    /\ watch.armed = 1
    /\ watch.compiles = 1
    /\ ~watch.unserved
    /\ watcher.pc = "idle"
    /\ ~Pending
    /\ _vertexShader.version = 2
    /\ pc = "idle"

\* C26: however the compare_exchange_strong of the watcher falls between
\* the load and the store of the render thread, every time set is followed
\* by one compilation and no more, and, if Render is called and returns
\* again and again, every change of a .hlsl file is followed by a
\* compilation that begins after it.
C26_NoInvalidationLost ==
    /\ [](watch.armed = watch.compiles + (IF Pending THEN 1 ELSE 0))
    /\ ([]<>(pc = "debugLoad") /\ []<>(pc = "idle"))
          => (watch.unserved ~> ~watch.unserved)

\* a file changed between the load and the store of the render thread, and
\* its compare_exchange_strong came after the store: two compilations
C26_Witness ==
    /\ watch.edits = 2
    /\ watch.armed = 2
    /\ watch.compiles = 2
    /\ ~watch.unserved
    /\ ~Pending
    /\ pc = "idle"

\* C27: if the compilation or the creation of one of the shaders fails, no
\* shader of the backend is replaced and Render goes on with the shaders of
\* before; the shaders are replaced only when all were made.
C27_AllOrNothing ==
    [][(pc = "debugCompile" /\ pc' # pc) =>
        /\ pc' = "refresh"
        /\ IF watch'.outcome = "none"
           THEN /\ _vertexShader' = [file |-> "shader_vs.hlsl", version |-> watch.edits]
                /\ _textPixelShader'.version = watch.edits
                /\ _textPixelShader'.file \in {"shader_text_cleartype_ps.hlsl",
                                               "shader_text_grayscale_ps.hlsl"}
           ELSE /\ _vertexShader' = _vertexShader
                /\ _textPixelShader' = _textPixelShader]_vars

\* the second compilation failed at the last shader, the shaders of the
\* first compilation are in use, and the frame was presented
C27_Witness ==
    /\ watch.compiles = 2
    /\ watch.edits = 2
    /\ watch.outcome = "shader_text_grayscale_ps.hlsl"
    /\ _vertexShader.version = 1
    /\ _textPixelShader.version = 1
    /\ pc = "idle"
    /\ Has(calls, "Present", "")


----------------------------------------------------------------------------
\* C31: RequiresContinuousRedraw() returns true only while a custom pixel
\* shader is held; when the custom shader stage is disabled, also after a
\* user shader that failed to compile, it returns false.
C31_RedrawOnlyWithShader ==
    RequiresContinuousRedraw => _customPixelShader # "none"


\* the custom offscreen texture and its two views are held
OffscreenTextureHeld ==
    /\ _customOffscreenTexture # <<0, 0>>
    /\ _customOffscreenTextureView
    /\ _customOffscreenTextureTargetView

\* C32: after the resource refresh of any frame the custom offscreen
\* texture, with its two views, is held exactly when a custom pixel shader
\* is held, the user's or the retro shader.
C32_TextureWithShader ==
    [][RefreshStep => (OffscreenTextureHeld' <=> _customPixelShader' # "none")]_vars


----------------------------------------------------------------------------
(* The index of the inverted cursor.  One Render call per behaviour, with   *)
(* a grid of any size up to MaxGrid x MaxGrid and an inverting cursor on    *)
(* any one cell of the grid.                                                *)

GridSizes == (1..MaxGrid) \X (1..MaxGrid)

\* the rectangles of one cell inside a grid of cellCount cells
CellRects(cellCount) ==
    {[left |-> x, top |-> y, right |-> x + 1, bottom |-> y + 1] :
        x \in 0..(cellCount[1] - 1), y \in 0..(cellCount[2] - 1)}

CursorPayloads ==
    UNION {{Payload(g, [mappings |-> <<>>, glyphIndices |-> <<>>], FALSE, r,
                    INVALID_COLOR) : r \in CellRects(g)} : g \in GridSizes}

RenderBeginCursor == frames = 0 /\ RenderWith(CursorPayloads, {{}})

NextCursor ==
    \/ RenderBeginCursor
    \/ ResourceRefresh
    \/ ResetQueue
    \/ Background
    \/ TextBegin
    \/ TextGlyph
    \/ TextEnd
    \/ GridLinePass
    \/ CursorInvert
    \/ CursorScan

SpecCursor == Init /\ [][NextCursor]_vars

\* the step is the read of the background colour under an inverting cursor
CursorReadStep == pc = "cursor" /\ pc' = "cursorScan"

\* the cursor rectangle of the payload lies inside its grid
CursorInsideGrid ==
    /\ 0 <= p.cursorRect.left /\ p.cursorRect.right <= p.s.cellCount[1]
    /\ 0 <= p.cursorRect.top /\ p.cursorRect.bottom <= p.s.cellCount[2]

\* C33: for every grid size and every non-empty cursor rectangle inside the
\* grid, the index at which the inverted cursor reads the background bitmap
\* is smaller than cellCount.x * cellCount.y.
C33_IndexInsideBitmap ==
    [][(CursorReadStep /\ NonEmpty(p.cursorRect) /\ CursorInsideGrid) =>
          CursorBackgroundIndex(p) < p.s.cellCount[1] * p.s.cellCount[2]]_vars


----------------------------------------------------------------------------
\* C34: the atlas size is recomputed from the target size once per frame:
\* after every Render call the atlas texture and the packer have the
\* power-of-two size computed from the target size of that frame.
C34_AtlasFollowsTarget ==
    (pc = "idle" /\ frames > 0) =>
        /\ <<_glyphAtlas.w, _glyphAtlas.h>> = AtlasSize(p.s.targetSize)
        /\ <<_rectPacker.width, _rectPacker.height>> = AtlasSize(p.s.targetSize)


----------------------------------------------------------------------------
(* The window thread (WindowThread.cpp).  The thread owns an AppHost or,   *)
(* while it is refrigerated, the window of the host it had.  Its callers,  *)
(* the AppHost and the window are not part of the file: of the host and    *)
(* the window the model keeps what the thread does with them.  A call      *)
(* through a null _host or a null _dispatcher is an access violation.      *)

\* the window requests CreateHost and Microwave are called with
WindowRequests == {"window1", "window2"}

\* MSG: message and wParam
Msg(message, wParam) == [message |-> message, wParam |-> wParam]

KeyMessages ==
    {Msg(m, k) : m \in {"WM_KEYDOWN", "WM_SYSKEYDOWN", "WM_KEYUP", "WM_SYSKEYUP"},
                 k \in {"VK_F7", "VK_MENU", "VK_SPACE"}}

\* the message GetMessageW returns 0 for
WM_QUIT == Msg("WM_QUIT", "")

\* the message whose dispatch runs the work item `work` of the dispatcher queue
DispatcherWork(work) == Msg("DispatcherWork", work)

\* what the window thread reads and writes, before any call of it
WindowThread ==
    [host |-> _host,
     warmWindow |-> _warmWindow,
     peasant |-> _peasant,
     token |-> _UpdateSettingsRequestedToken,
     dispatcher |-> _dispatcher,
     messages |-> messages,
     events |-> events,
     windows |-> thread.windows,
     fault |-> FALSE]

\* the state of the thread after a call: t is the thread at the call's end
SetWindowThread(w, t) ==
    /\ _host' = w.host
    /\ _warmWindow' = w.warmWindow
    /\ _peasant' = w.peasant
    /\ _UpdateSettingsRequestedToken' = w.token
    /\ _dispatcher' = w.dispatcher
    /\ messages' = w.messages
    /\ events' = w.events
    /\ thread' = IF w.fault THEN [t EXCEPT !.pc = "crashed", !.windows = w.windows]
                 ELSE [t EXCEPT !.windows = w.windows]

Event(op, arg) == [op |-> op, arg |-> arg]

Log(w, op, arg) == [w EXCEPT !.events = Append(w.events, Event(op, arg))]

\* a call through a null pointer
Fault(w) == [w EXCEPT !.fault = TRUE]

\* std::make_shared<::AppHost>(_appLogic, args, _manager, _peasant[, window]):
\* the host takes the window it is given and makes one if it is given none
MakeAppHost(w, window) ==
    IF window.id = 0
    THEN [w EXCEPT !.host = [NoHost EXCEPT !.exists = TRUE,
                                           !.window = [id |-> w.windows + 1,
                                                       closed |-> FALSE]],
                   !.windows = w.windows + 1]
    ELSE [w EXCEPT !.host = [NoHost EXCEPT !.exists = TRUE, !.window = window]]

\* _UpdateSettingsRequestedToken = _host->UpdateSettingsRequested(handler)
RegisterSettingsHandler(w) ==
    LET token == Cardinality(w.host.handlers) + 1
    IN  Log([w EXCEPT !.host.handlers = w.host.handlers \cup {token},
                      !.token = token],
            "UpdateSettingsRequested", "register")

\* _host->UpdateSettingsRequested(_UpdateSettingsRequestedToken)
RevokeSettingsHandler(w) ==
    Log([w EXCEPT !.host.handlers = w.host.handlers \ {w.token}],
        "UpdateSettingsRequested", "revoke")

\* _host->Initialize()
InitializeHost(w) == Log([w EXCEPT !.host.initialized = TRUE], "Initialize", "host")

\* void WindowThread::CreateHost(WindowRequestedArgs args)
CreateHostOf(w, args) ==
    LET w1 == MakeAppHost([w EXCEPT !.peasant = args], NoWindow)
        w2 == InitializeHost(RegisterSettingsHandler(w1))
    IN  [w2 EXCEPT !.dispatcher = TRUE]

\* Refrigerate that leaves the settings handler registered
RefrigerateKeepingHandler(w) ==
    IF ~w.host.exists THEN Fault(w)
    ELSE [w EXCEPT !.warmWindow = w.host.window, !.host = NoHost]

\* void WindowThread::Refrigerate()
RefrigerateOf(w) ==
    IF ~w.host.exists THEN Fault(w)
    ELSE LET w1 == RevokeSettingsHandler(w)
             w2 == Log(w1, "Refrigerate", "host")
         IN  [w2 EXCEPT !.warmWindow = w1.host.window, !.host = NoHost]

\* the work Microwave hands to the dispatcher queue, run on the window thread
\* that leaves the warm window where it is
MicrowaveWorkKeepingWindow(w, args) ==
    InitializeHost(RegisterSettingsHandler(
        MakeAppHost([w EXCEPT !.peasant = args], w.warmWindow)))

\* the work Microwave hands to the dispatcher queue, run on the window thread
MicrowaveWork(w, args) ==
    LET w1 == MakeAppHost([w EXCEPT !.peasant = args], w.warmWindow)
        w2 == [w1 EXCEPT !.warmWindow = NoWindow]
    IN  InitializeHost(RegisterSettingsHandler(w2))

\* void WindowThread::Microwave(WindowRequestedArgs args)
MicrowaveOf(w, args) ==
    IF ~w.dispatcher THEN Fault(w)
    ELSE [w EXCEPT !.messages = Append(w.messages, DispatcherWork(args))]


\* TranslateMessage(&message)
TranslateMessage(w, msg) == Log(w, "TranslateMessage", msg)

\* DispatchMessage(&message): the window procedure of the message runs and,
\* for a message of the dispatcher queue, the work item
DispatchMessage(w, msg) ==
    LET w1 == Log(w, "DispatchMessage", msg)
    IN  IF msg.message = "DispatcherWork" THEN MicrowaveWork(w1, msg.wParam) ELSE w1

\* _host->OnDirectKeyEvent(vkey, scanCode, down), which returns handled
OnDirectKeyEvent(w, vkey, down, handled) ==
    IF ~w.host.exists THEN Fault(w)
    ELSE Log(w, "OnDirectKeyEvent", [vkey |-> vkey, down |-> down, handled |-> handled])

MessageIsF7Keypress(msg) ==
    msg.message \in {"WM_KEYDOWN", "WM_SYSKEYDOWN"} /\ msg.wParam = "VK_F7"

MessageIsAltKeyup(msg) ==
    msg.message \in {"WM_KEYUP", "WM_SYSKEYUP"} /\ msg.wParam = "VK_MENU"

MessageIsAltSpaceKeypress(msg) ==
    msg.message = "WM_SYSKEYDOWN" /\ msg.wParam = "VK_SPACE"

\* the body of the loop with Alt+Space treated like F7: dropped only if the
\* host handled it
MessagePumpBodyAltSpaceLikeF7(w, msg, handled) ==
    LET direct == MessageIsF7Keypress(msg) \/ MessageIsAltKeyup(msg)
                    \/ MessageIsAltSpaceKeypress(msg)
        a == IF direct THEN OnDirectKeyEvent(w, msg.wParam, ~MessageIsAltKeyup(msg), handled)
             ELSE w
    IN  IF a.fault \/ (direct /\ handled) THEN a
        ELSE DispatchMessage(TranslateMessage(a, msg), msg)

\* the body of the loop of _messagePump for the message msg, where handled
\* is what the host returns if it is asked
MessagePumpBody(w, msg, handled) ==
    LET a == IF MessageIsF7Keypress(msg)
             THEN OnDirectKeyEvent(w, "VK_F7", TRUE, handled)
             ELSE w
        b == IF MessageIsAltKeyup(msg)
             THEN OnDirectKeyEvent(a, "VK_MENU", FALSE, handled)
             ELSE a
    IN  IF a.fault \/ (MessageIsF7Keypress(msg) /\ handled) THEN a
        ELSE IF b.fault \/ (MessageIsAltKeyup(msg) /\ handled) THEN b
        ELSE IF MessageIsAltSpaceKeypress(msg)
             THEN OnDirectKeyEvent(b, "VK_SPACE", TRUE, handled)
             ELSE DispatchMessage(TranslateMessage(b, msg), msg)

\* void WindowThread::_pumpRemainingXamlMessages()
RECURSIVE PumpRemainingXamlMessages(_)
PumpRemainingXamlMessages(w) ==
    IF w.messages = <<>> THEN w
    ELSE PumpRemainingXamlMessages(
             DispatchMessage([w EXCEPT !.messages = Tail(w.messages)], Head(w.messages)))

\* the calls of RundownForExit on the host and the warm window
RundownClose(w) ==
    LET w1 == IF w.host.exists
              THEN Log([RevokeSettingsHandler(w) EXCEPT !.host.closed = TRUE],
                       "Close", "host")
              ELSE w
    IN  IF w1.warmWindow.id # 0
        THEN Log([w1 EXCEPT !.warmWindow.closed = TRUE], "Close", "warmWindow")
        ELSE w1

\* RundownForExit that pumps the remaining messages before it closes
RundownForExitPumpingFirst(w) == RundownClose(PumpRemainingXamlMessages(w))

\* void WindowThread::RundownForExit()
RundownForExitOf(w) == PumpRemainingXamlMessages(RundownClose(w))

\* what the window thread model leaves alone: the renderer
backendVars ==
    <<debugVars, trackerVars, previous, p, pc, batchVars, gpuVars, atlasVars,
      _vertexInstanceData, textPos, cumulativeAdvance, scan, calls, trace,
      frameQuads, passes, flushMark, packFailures, frames>>

\* the window thread at the start of a call of one of its methods, or of
\* a turn of the loop of the pump
Called == [WindowThread EXCEPT !.events = <<>>]

CreateHost ==
    /\ thread.pc = "idle"
    /\ thread.calls < MaxCalls
    /\ \E args \in WindowRequests :
          SetWindowThread(CreateHostOf(Called, args), [thread EXCEPT !.calls = @ + 1])
    /\ UNCHANGED backendVars

Refrigerate ==
    /\ thread.pc = "idle"
    /\ thread.calls < MaxCalls
    /\ SetWindowThread(RefrigerateOf(Called), [thread EXCEPT !.calls = @ + 1])
    /\ UNCHANGED backendVars

\* Microwave is called on another thread than the window thread
Microwave ==
    /\ thread.pc \in {"idle", "pump"}
    /\ thread.calls < MaxCalls
    /\ \E args \in WindowRequests :
          SetWindowThread(MicrowaveOf(WindowThread, args),
                          [thread EXCEPT !.calls = @ + 1])
    /\ UNCHANGED backendVars

\* some thread posts one of the messages of kinds to the window thread
PostMessage(kinds) ==
    /\ thread.pc \in {"idle", "pump"}
    /\ thread.posted < MaxMessages
    /\ \E msg \in kinds : messages' = Append(messages, msg)
    /\ thread' = [thread EXCEPT !.posted = @ + 1]
    /\ UNCHANGED <<backendVars, _host, _warmWindow, _peasant,
                   _UpdateSettingsRequestedToken, _dispatcher, events>>

\* int WindowThread::RunMessagePump(), up to the first GetMessageW
RunMessagePump ==
    /\ thread.pc = "idle"
    /\ thread' = [thread EXCEPT !.pc = "pump", !.exitCode = -1]
    /\ events' = <<>>
    /\ UNCHANGED <<backendVars, _host, _warmWindow, _peasant,
                   _UpdateSettingsRequestedToken, _dispatcher, messages>>

\* GetMessageW returns a message and the loop of _messagePump handles it, or
\* GetMessageW returns 0 and the pump returns
MessagePump ==
    /\ thread.pc = "pump"
    /\ messages # <<>>
    /\ LET msg == Head(messages)
           w == [Called EXCEPT !.messages = Tail(messages)]
       IN  IF msg.message = "WM_QUIT"
           THEN SetWindowThread(w, [thread EXCEPT !.pc = "idle", !.exitCode = 0])
           ELSE \E handled \in BOOLEAN :
                   SetWindowThread(MessagePumpBody(w, msg, handled), thread)
    /\ UNCHANGED backendVars

RundownForExit ==
    /\ thread.pc = "idle"
    /\ SetWindowThread(RundownForExitOf(Called), [thread EXCEPT !.pc = "exited"])
    /\ UNCHANGED backendVars

\* the messages of the pump: every key message, a message that is none,
\* and the quit message
PumpMessages == KeyMessages \cup {Msg("WM_PAINT", ""), WM_QUIT}

PostPumpMessage == PostMessage(PumpMessages)

\* a window thread that is given a host and then pumps messages
CreateFirstHost == thread.calls = 0 /\ CreateHost

NextPump ==
    \/ CreateFirstHost
    \/ PostPumpMessage
    \/ RunMessagePump
    \/ MessagePump

SpecPump == Init /\ [][NextPump]_vars

\* the messages of the life of the thread
ThreadMessages == {Msg("WM_KEYDOWN", "VK_F7"), Msg("WM_PAINT", ""), WM_QUIT}

PostThreadMessage == PostMessage(ThreadMessages)

\* a window thread whose methods are called in any order
NextThread ==
    \/ CreateHost
    \/ Refrigerate
    \/ Microwave
    \/ PostThreadMessage
    \/ RunMessagePump
    \/ MessagePump
    \/ RundownForExit

SpecThread == Init /\ [][NextThread]_vars


----------------------------------------------------------------------------
\* the step is a turn of the loop of the pump: it takes the oldest message
PumpTurn == thread.pc = "pump" /\ messages # <<>> /\ messages' = Tail(messages)

\* the host was asked about the key and answered handled
Asked(vkey, down, handled) ==
    Event("OnDirectKeyEvent", [vkey |-> vkey, down |-> down, handled |-> handled])

\* the message was translated and dispatched, once
Delivered(msg) == <<Event("TranslateMessage", msg), Event("DispatchMessage", msg)>>

----------------------------------------------------------------------------
\* the step is a call of RundownForExit
RundownStep == thread.pc = "idle" /\ thread'.pc = "exited"

\* what RundownForExit has to do with the host and the warm window it finds
Closes ==
    (IF _host.exists
     THEN <<Event("UpdateSettingsRequested", "revoke"), Event("Close", "host")>>
     ELSE <<>>)
    \o (IF _warmWindow.id # 0 THEN <<Event("Close", "warmWindow")>> ELSE <<>>)

IsDispatch(e) == e.op = "DispatchMessage"

\* C36: RundownForExit unregisters the settings handler from the host and
\* closes the host if there is one, closes the warm window if there is
\* one, and after that dispatches every message queued for the thread,
\* oldest first, until the queue is empty; nothing is closed after the
\* first message was dispatched.
C36_RundownOrder ==
    [][RundownStep =>
        LET n == Len(Closes)
            rest == SubSeq(events', n + 1, Len(events'))
        IN  /\ Len(events') >= n
            /\ SubSeq(events', 1, n) = Closes
            /\ SelectSeq(rest, IsDispatch)
                   = [i \in 1..Len(messages) |-> Event("DispatchMessage", messages[i])]
            /\ \A i \in 1..Len(rest) :
                  rest[i].op # "Close" /\ rest[i] # Event("UpdateSettingsRequested", "revoke")
            /\ messages' = <<>>]_vars

\* RundownForExit found a host and two messages: it unregistered the
\* handler, closed the host and then dispatched the two
C36_Witness ==
    /\ thread.pc = "exited"
    /\ messages = <<>>
    /\ Len(events) = 4
    /\ SubSeq(events, 1, 2)
           = <<Event("UpdateSettingsRequested", "revoke"), Event("Close", "host")>>
    /\ IsDispatch(events[3])
    /\ IsDispatch(events[4])
    /\ _host.closed
    /\ _host.handlers = {}


----------------------------------------------------------------------------
\* the thread holds exactly one of a host and a warm window, and a host
\* has the settings handler of the thread registered
Settled ==
    /\ _host.exists # (_warmWindow.id # 0)
    /\ _host.exists => _host.handlers = {_UpdateSettingsRequestedToken}
    /\ ~_host.exists => _host.handlers = {}

\* no work of Microwave is waiting in the queue of the thread
WorkRun == \A i \in 1..Len(messages) : messages[i].message # "DispatcherWork"

CreateHostStep ==
    /\ thread.pc = "idle" /\ thread'.pc = "idle"
    /\ thread'.calls = thread.calls + 1
    /\ messages' = messages
    /\ _host'.exists
RefrigerateStep ==
    /\ thread.pc = "idle" /\ thread'.pc = "idle"
    /\ thread'.calls = thread.calls + 1
    /\ messages' = messages
    /\ ~_host'.exists
MicrowaveStep ==
    /\ thread'.pc # "crashed"
    /\ thread'.calls = thread.calls + 1
    /\ messages' # messages

\* the step is a turn of the pump that runs the work of a Microwave
WorkStep == PumpTurn /\ Head(messages).message = "DispatcherWork"

====
